---------------------------- MODULE Spec2Model ----------------------------
(***************************************************************************)
(* ChefGPT recipe-generation pipeline: the retry helper of the model       *)
(* invoker (openai_client.py), the three generation orchestrators and the  *)
(* HTTP handlers that map their failures to responses (main.py).           *)
(*                                                                         *)
(* Strings whose content the code inspects (exception messages) are        *)
(* sequences of one-character strings, so that lower-casing and substring  *)
(* search are computed, not assumed.  Delays are counted in units of the   *)
(* default initial delay (1.0 s).                                          *)
(***************************************************************************)
EXTENDS Integers, Sequences, FiniteSets, TLC

(***************************************************************************)
(* Bounds of the model.                                                    *)
(***************************************************************************)
\* number of concurrent generation requests
NumRequests == 2
\* largest max_attempts given to _call_with_retries when it is called alone
MaxAttemptsBound == 4
\* largest initial_delay given to _call_with_retries when it is called alone
MaxInitialDelay == 2

Req == 1..NumRequests

(***************************************************************************)
(* Text helpers: str.lower() and the in substring test.                  *)
(***************************************************************************)
UpperToLower ==
    [c \in {"A","B","C","D","E","F","G","H","I","J","K","L","M","N","O","P",
            "Q","R","S","T","U","V","W","X","Y","Z"} |->
        CASE c = "A" -> "a" [] c = "B" -> "b" [] c = "C" -> "c" [] c = "D" -> "d"
          [] c = "E" -> "e" [] c = "F" -> "f" [] c = "G" -> "g" [] c = "H" -> "h"
          [] c = "I" -> "i" [] c = "J" -> "j" [] c = "K" -> "k" [] c = "L" -> "l"
          [] c = "M" -> "m" [] c = "N" -> "n" [] c = "O" -> "o" [] c = "P" -> "p"
          [] c = "Q" -> "q" [] c = "R" -> "r" [] c = "S" -> "s" [] c = "T" -> "t"
          [] c = "U" -> "u" [] c = "V" -> "v" [] c = "W" -> "w" [] c = "X" -> "x"
          [] c = "Y" -> "y" [] c = "Z" -> "z"]

\* str.lower()
Lower(s) ==
    [i \in 1..Len(s) |-> IF s[i] \in DOMAIN UpperToLower THEN UpperToLower[s[i]] ELSE s[i]]

\* needle in hay
Contains(hay, needle) ==
    \E i \in 0..(Len(hay) - Len(needle)) :
        \A j \in 1..Len(needle) : hay[i + j] = needle[j]

(***************************************************************************)
(* Python values as the normalizer sees them.  A str is a sequence of      *)
(* one-character strings; a dict is a function from its keys (strs) to     *)
(* values; every value carries its type in the field t.                    *)
(***************************************************************************)
JNull == [t |-> "null"]
JStr(s) == [t |-> "str", v |-> s]
JInt(n) == [t |-> "int", v |-> n]
JBool(b) == [t |-> "bool", v |-> b]
JList(q) == [t |-> "list", v |-> q]
JDict(f) == [t |-> "dict", v |-> f]
EmptyDict == [x \in {} |-> JNull]

\* the dictionary keys the normalizer and the validator read
k_title == <<"t","i","t","l","e">>
k_name == <<"n","a","m","e">>
k_recipe_name == <<"r","e","c","i","p","e","_","n","a","m","e">>
k_title_en == <<"t","i","t","l","e","_","e","n">>
k_transliteration == <<"t","r","a","n","s","l","i","t","e","r","a","t","i","o","n">>
k_name_en == <<"n","a","m","e","_","e","n">>
k_english_title == <<"e","n","g","l","i","s","h","_","t","i","t","l","e">>
k_recipe_name_en == <<"r","e","c","i","p","e","_","n","a","m","e","_","e","n">>
k_cuisine == <<"c","u","i","s","i","n","e">>
k_servings == <<"s","e","r","v","i","n","g","s">>
k_total_time_minutes == <<"t","o","t","a","l","_","t","i","m","e","_","m","i","n","u","t","e","s">>
k_time_minutes == <<"t","i","m","e","_","m","i","n","u","t","e","s">>
k_ingredients == <<"i","n","g","r","e","d","i","e","n","t","s">>
k_ingredient_list == <<"i","n","g","r","e","d","i","e","n","t","_","l","i","s","t">>
k_ingredient == <<"i","n","g","r","e","d","i","e","n","t">>
k_quantity == <<"q","u","a","n","t","i","t","y">>
k_qty == <<"q","t","y">>
k_steps == <<"s","t","e","p","s">>
k_instructions == <<"i","n","s","t","r","u","c","t","i","o","n","s">>
k_instruction == <<"i","n","s","t","r","u","c","t","i","o","n">>
k_step == <<"s","t","e","p">>
k_number == <<"n","u","m","b","e","r">>
k_nutrition == <<"n","u","t","r","i","t","i","o","n">>
k_tips == <<"t","i","p","s">>
k_calories == <<"c","a","l","o","r","i","e","s">>
k_protein_g == <<"p","r","o","t","e","i","n","_","g">>
k_carbs_g == <<"c","a","r","b","s","_","g">>
k_fat_g == <<"f","a","t","_","g">>
k_fiber_g == <<"f","i","b","e","r","_","g">>
k_sodium_mg == <<"s","o","d","i","u","m","_","m","g">>

\* bool(v): Python truthiness
Truthy(v) ==
    CASE v.t = "null" -> FALSE
      [] v.t = "str" -> Len(v.v) > 0
      [] v.t = "int" -> v.v # 0
      [] v.t = "bool" -> v.v
      [] v.t = "list" -> Len(v.v) > 0
      [] v.t = "dict" -> DOMAIN v.v # {}

\* a or b
PyOr(a, b) == IF Truthy(a) THEN a ELSE b

\* d.get(k) and d.get(k, default) on the function d
Get(d, k) == IF k \in DOMAIN d THEN d[k] ELSE JNull
GetDefault(d, k, default) == IF k \in DOMAIN d THEN d[k] ELSE default

\* d with d[k] = v
Put(d, k, v) == [x \in DOMAIN d \cup {k} |-> IF x = k THEN v ELSE d[x]]

Whitespace == {" ", "\n"}

\* str.strip()
RECURSIVE LStrip(_)
LStrip(s) == IF s # <<>> /\ Head(s) \in Whitespace THEN LStrip(Tail(s)) ELSE s
RECURSIVE RStrip(_)
RStrip(s) ==
    IF s # <<>> /\ s[Len(s)] \in Whitespace THEN RStrip(SubSeq(s, 1, Len(s) - 1)) ELSE s
Strip(s) == RStrip(LStrip(s))

LowerToUpper ==
    [c \in {UpperToLower[u] : u \in DOMAIN UpperToLower} |->
        CHOOSE u \in DOMAIN UpperToLower : UpperToLower[u] = c]

\* str.capitalize(): first character upper-cased, the rest lower-cased
Capitalize(s) ==
    [i \in 1..Len(s) |->
        IF i = 1
        THEN (IF s[i] \in DOMAIN LowerToUpper THEN LowerToUpper[s[i]] ELSE s[i])
        ELSE (IF s[i] \in DOMAIN UpperToLower THEN UpperToLower[s[i]] ELSE s[i])]

Digits == {"0","1","2","3","4","5","6","7","8","9"}
DigitValue(c) ==
    CASE c = "0" -> 0 [] c = "1" -> 1 [] c = "2" -> 2 [] c = "3" -> 3 [] c = "4" -> 4
      [] c = "5" -> 5 [] c = "6" -> 6 [] c = "7" -> 7 [] c = "8" -> 8 [] c = "9" -> 9
DigitChar(n) ==
    CASE n = 0 -> "0" [] n = 1 -> "1" [] n = 2 -> "2" [] n = 3 -> "3" [] n = 4 -> "4"
      [] n = 5 -> "5" [] n = 6 -> "6" [] n = 7 -> "7" [] n = 8 -> "8" [] n = 9 -> "9"

RECURSIVE DigitsValue(_)
DigitsValue(s) ==
    IF s = <<>> THEN 0 ELSE 10 * DigitsValue(SubSeq(s, 1, Len(s) - 1)) + DigitValue(s[Len(s)])

RECURSIVE NatStr(_)
NatStr(n) == IF n < 10 THEN <<DigitChar(n)>> ELSE NatStr(n \div 10) \o <<DigitChar(n % 10)>>

\* str(n) of an int
IntStr(n) == IF n < 0 THEN <<"-">> \o NatStr(0 - n) ELSE NatStr(n)

\* int(s) of a str: surrounding whitespace and one sign are accepted
IsIntLiteral(s) ==
    LET b == Strip(s)
        d == IF b # <<>> /\ Head(b) \in {"-", "+"} THEN Tail(b) ELSE b
    IN d # <<>> /\ \A i \in 1..Len(d) : d[i] \in Digits
IntLiteralValue(s) ==
    LET b == Strip(s)
    IN IF Head(b) = "-" THEN 0 - DigitsValue(Tail(b))
       ELSE IF Head(b) = "+" THEN DigitsValue(Tail(b)) ELSE DigitsValue(b)

\* int(v): the value, or a failure (ValueError, TypeError) as ok = FALSE
PyInt(v) ==
    CASE v.t = "int" -> [ok |-> TRUE, v |-> v.v]
      [] v.t = "bool" -> [ok |-> TRUE, v |-> IF v.v THEN 1 ELSE 0]
      [] v.t = "str" ->
            IF IsIntLiteral(v.v) THEN [ok |-> TRUE, v |-> IntLiteralValue(v.v)]
            ELSE [ok |-> FALSE, v |-> 0]
      [] OTHER -> [ok |-> FALSE, v |-> 0]

\* str(v); the repr of a list or a dict is kept only as far as its brackets
\* and whether it is empty
PyStr(v) ==
    CASE v.t = "str" -> v.v
      [] v.t = "int" -> IntStr(v.v)
      [] v.t = "bool" -> IF v.v THEN <<"T","r","u","e">> ELSE <<"F","a","l","s","e">>
      [] v.t = "null" -> <<"N","o","n","e">>
      [] v.t = "list" -> IF Len(v.v) = 0 THEN <<"[","]">> ELSE <<"[",".",".","]">>
      [] v.t = "dict" -> IF DOMAIN v.v = {} THEN <<"{","}">> ELSE <<"{",".",".","}">>

(***************************************************************************)
(* Raw model text.  A text is a sequence of tokens: punctuation, white     *)
(* space, the code fence, bare words (prose, null, true, false), quoted    *)
(* string literals and numbers.  The content of a word or of a literal is  *)
(* a str.                                                                  *)
(***************************************************************************)
P(c) == [k |-> "p", v |-> c]
WS(c) == [k |-> "ws", v |-> c]
Fence == [k |-> "fence", v |-> "fence"]
W(s) == [k |-> "word", v |-> s]
DQ(s) == [k |-> "dq", v |-> s]
SQ(s) == [k |-> "sq", v |-> s]
NUM(n) == [k |-> "num", v |-> n]

IsP(tok, c) == tok.k = "p" /\ tok.v = c
IsWs(tok) == tok.k = "ws"
IsNewline(tok) == tok.k = "ws" /\ tok.v = "\n"
IsFence(tok) == tok.k = "fence"
\* (?:json) under re.IGNORECASE
IsJsonTag(tok) == tok.k = "word" /\ Lower(tok.v) = <<"j","s","o","n">>

\* text.strip()
RECURSIVE LStripTokens(_)
LStripTokens(c) == IF c # <<>> /\ IsWs(Head(c)) THEN LStripTokens(Tail(c)) ELSE c
RECURSIVE RStripTokens(_)
RStripTokens(c) ==
    IF c # <<>> /\ IsWs(c[Len(c)]) THEN RStripTokens(SubSeq(c, 1, Len(c) - 1)) ELSE c
StripTokens(c) == RStripTokens(LStripTokens(c))

Min(S) == CHOOSE x \in S : \A y \in S : x <= y

\* line 131: where group 1 of the fence pattern (fence, optional json tag,
\* newline, lazy body, fence) starts when the
\* pattern is tried at i, and 0 when the opening does not match there
FenceBodyStart(c, i) ==
    IF ~IsFence(c[i]) THEN 0
    ELSE IF i + 1 <= Len(c) /\ IsNewline(c[i + 1]) THEN i + 2
    ELSE IF i + 2 <= Len(c) /\ IsJsonTag(c[i + 1]) /\ IsNewline(c[i + 2]) THEN i + 3
    ELSE 0
FenceEnds(c, b) == {j \in b..Len(c) : IsFence(c[j])}
FenceStarts(c) ==
    {i \in 1..Len(c) : FenceBodyStart(c, i) # 0 /\ FenceEnds(c, FenceBodyStart(c, i)) # {}}

\* lines 131-133
ExtractFence(c) ==
    IF FenceStarts(c) = {} THEN c
    ELSE LET i == Min(FenceStarts(c))
             b == FenceBodyStart(c, i)
             j == Min(FenceEnds(c, b))
         IN StripTokens(SubSeq(c, b, j - 1))

\* lines 135-137: \{[\s\S]*\}\s*$ matches from the first '{' when the text
\* ends, up to white space, with a '}'
ExtractBrace(c) ==
    LET body == RStripTokens(c)
        opens == {i \in 1..(Len(body) - 1) : IsP(body[i], "{")}
    IN IF body # <<>> /\ IsP(body[Len(body)], "}") /\ opens # {}
       THEN SubSeq(c, Min(opens), Len(c))
       ELSE c

HasChar(s, ch) == \E i \in 1..Len(s) : s[i] = ch
\* "'" in candidate, '"' in candidate
HasSingleQuote(c) ==
    \E i \in 1..Len(c) :
        c[i].k = "sq" \/ (c[i].k \in {"word", "dq"} /\ HasChar(c[i].v, "'"))
HasDoubleQuote(c) ==
    \E i \in 1..Len(c) :
        c[i].k = "dq" \/ (c[i].k \in {"word", "sq"} /\ HasChar(c[i].v, "\""))

\* lines 139-140
ReplaceQuotes(c) ==
    IF HasSingleQuote(c) /\ ~HasDoubleQuote(c)
    THEN [i \in 1..Len(c) |->
            CASE c[i].k = "sq" -> DQ(c[i].v)
              [] c[i].k = "word" ->
                    W([n \in 1..Len(c[i].v) |->
                          IF c[i].v[n] = "'" THEN "\"" ELSE c[i].v[n]])
              [] OTHER -> c[i]]
    ELSE c

SkipWs(c, i) ==
    IF \E j \in i..Len(c) : ~IsWs(c[j])
    THEN Min({j \in i..Len(c) : ~IsWs(c[j])})
    ELSE Len(c) + 1

\* line 142: ,\s*(\]|\}) loses its comma
RemoveTrailingCommas(c) ==
    LET drop(i) ==
            /\ IsP(c[i], ",")
            /\ SkipWs(c, i + 1) <= Len(c)
            /\ (IsP(c[SkipWs(c, i + 1)], "]") \/ IsP(c[SkipWs(c, i + 1)], "}"))
        keep == {i \in 1..Len(c) : ~drop(i)}
        nth(n) == CHOOSE i \in keep : Cardinality({j \in keep : j < i}) = n - 1
    IN [n \in 1..Cardinality(keep) |-> c[nth(n)]]

\* json.loads: a recursive-descent parse of the tokens
ParseFail == [ok |-> FALSE, v |-> JNull, i |-> 0]
ParseOk(v, i) == [ok |-> TRUE, v |-> v, i |-> i]

RECURSIVE ParseValue(_, _)
RECURSIVE ParseMembers(_, _, _)
RECURSIVE ParseElements(_, _, _)

ParseValue(c, i0) ==
    LET i == SkipWs(c, i0) IN
    IF i > Len(c) THEN ParseFail
    ELSE CASE c[i].k = "dq" -> ParseOk(JStr(c[i].v), i + 1)
           [] c[i].k = "num" -> ParseOk(JInt(c[i].v), i + 1)
           [] c[i].k = "word" ->
                IF c[i].v = <<"n","u","l","l">> THEN ParseOk(JNull, i + 1)
                ELSE IF c[i].v = <<"t","r","u","e">> THEN ParseOk(JBool(TRUE), i + 1)
                ELSE IF c[i].v = <<"f","a","l","s","e">> THEN ParseOk(JBool(FALSE), i + 1)
                ELSE ParseFail
           [] IsP(c[i], "{") ->
                LET j == SkipWs(c, i + 1) IN
                IF j <= Len(c) /\ IsP(c[j], "}") THEN ParseOk(JDict(EmptyDict), j + 1)
                ELSE ParseMembers(c, j, EmptyDict)
           [] IsP(c[i], "[") ->
                LET j == SkipWs(c, i + 1) IN
                IF j <= Len(c) /\ IsP(c[j], "]") THEN ParseOk(JList(<<>>), j + 1)
                ELSE ParseElements(c, j, <<>>)
           [] OTHER -> ParseFail

ParseMembers(c, i, acc) ==
    IF i > Len(c) \/ c[i].k # "dq" THEN ParseFail
    ELSE LET j == SkipWs(c, i + 1) IN
         IF j > Len(c) \/ ~IsP(c[j], ":") THEN ParseFail
         ELSE LET pv == ParseValue(c, j + 1) IN
              IF ~pv.ok THEN ParseFail
              ELSE LET m == SkipWs(c, pv.i)
                       acc2 == Put(acc, c[i].v, pv.v)
                   IN IF m > Len(c) THEN ParseFail
                      ELSE IF IsP(c[m], "}") THEN ParseOk(JDict(acc2), m + 1)
                      ELSE IF IsP(c[m], ",") THEN ParseMembers(c, SkipWs(c, m + 1), acc2)
                      ELSE ParseFail

ParseElements(c, i, acc) ==
    LET pv == ParseValue(c, i) IN
    IF ~pv.ok THEN ParseFail
    ELSE LET m == SkipWs(c, pv.i)
             acc2 == Append(acc, pv.v)
         IN IF m > Len(c) THEN ParseFail
            ELSE IF IsP(c[m], "]") THEN ParseOk(JList(acc2), m + 1)
            ELSE IF IsP(c[m], ",") THEN ParseElements(c, SkipWs(c, m + 1), acc2)
            ELSE ParseFail

\* line 143: the whole candidate must be one JSON value
JsonLoads(c) ==
    LET pv == ParseValue(c, 1) IN
    IF pv.ok /\ SkipWs(c, pv.i) > Len(c) THEN [ok |-> TRUE, v |-> pv.v]
    ELSE [ok |-> FALSE, v |-> JNull]

\* lines 126-143
_extract_and_normalize_json(text) ==
    JsonLoads(RemoveTrailingCommas(ReplaceQuotes(ExtractBrace(ExtractFence(StripTokens(text))))))

(***************************************************************************)
(* _coerce_recipe_dict, lines 146-226.  The result is ok = FALSE when the  *)
(* function raises.                                                        *)
(***************************************************************************)
\* lines 148-152
to_int(value, default) == IF PyInt(value).ok THEN PyInt(value).v ELSE default

\* "Recipe"
DefaultTitle == <<"R","e","c","i","p","e">>
\* line 158
alt_keys == <<k_title_en, k_transliteration, k_name_en, k_english_title, k_recipe_name_en>>

\* line 156
RawTitle(d) ==
    PyOr(PyOr(PyOr(Get(d, k_title), Get(d, k_name)), Get(d, k_recipe_name)), JStr(DefaultTitle))

\* lines 159-164: the stripped str of the first truthy alternate title, or None
AltTitle(d) ==
    LET hits == {i \in 1..Len(alt_keys) : Truthy(Get(d, alt_keys[i]))}
    IN IF hits = {} THEN JNull
       ELSE JStr(Strip(PyStr(Get(d, alt_keys[Min(hits)]))))

\* alt in raw_title, for the types on which the operator is defined
PyIn(alt, container) ==
    CASE container.t = "str" -> Contains(container.v, alt)
      [] container.t = "list" -> \E i \in 1..Len(container.v) : container.v[i] = JStr(alt)
      [] container.t = "dict" -> alt \in DOMAIN container.v
      [] OTHER -> FALSE
\* alt in raw_title raises TypeError on an int or a bool
PyInRaises(container) == container.t \in {"int", "bool", "null"}

Paren(s) == <<" ", "(">> \o s \o <<")">>

\* the alternate title appended without the test alt not in raw_title
TitleWithAltAlways(raw, alt) ==
    IF Truthy(alt) THEN JStr(PyStr(raw) \o Paren(alt.v)) ELSE raw

\* lines 166-168
TitleWithAlt(raw, alt) ==
    IF Truthy(alt) /\ ~PyIn(alt.v, raw) THEN JStr(PyStr(raw) \o Paren(alt.v)) ELSE raw

\* lines 170-178
TitleWithCuisine(title, cuisine_val) ==
    IF Truthy(cuisine_val) /\ Strip(PyStr(cuisine_val)) # <<>>
    THEN JStr(PyStr(title) \o Paren(Capitalize(Strip(PyStr(cuisine_val)))))
    ELSE title

\* the coerced time without the final "or None"
TotalTimeKeepsZero(d) ==
    JInt(to_int(GetDefault(d, k_total_time_minutes, GetDefault(d, k_time_minutes, JInt(0))), 0))

\* line 184
TotalTime(d) ==
    LET n == to_int(GetDefault(d, k_total_time_minutes, GetDefault(d, k_time_minutes, JInt(0))), 0)
    IN IF n # 0 THEN JInt(n) ELSE JNull

IngredientEntry(name, qty) == JDict((k_name :> name) @@ (k_quantity :> qty))
StepEntry(number, instruction) ==
    JDict((k_number :> JInt(number)) @@ (k_instruction :> instruction))

\* "salt", "to taste", line 203
FallbackIngredient ==
    IngredientEntry(JStr(<<"s","a","l","t">>), JStr(<<"t","o"," ","t","a","s","t","e">>))
\* "Mix ingredients and cook until done.", line 224
FallbackInstruction ==
    <<"M","i","x"," ","i","n","g","r","e","d","i","e","n","t","s"," ","a","n","d"," ",
      "c","o","o","k"," ","u","n","t","i","l"," ","d","o","n","e",".">>
FallbackStep == StepEntry(1, JStr(FallbackInstruction))

\* lines 194-202: one pass of the loop over ings
RECURSIVE CoerceIngredients(_, _)
CoerceIngredients(items, acc) ==
    IF items = <<>> THEN acc
    ELSE LET item == Head(items)
             name == IF item.t = "dict"
                     THEN PyOr(PyOr(Get(item.v, k_name), Get(item.v, k_ingredient)),
                               JStr(PyStr(item)))
                     ELSE JStr(PyStr(item))
             qty == IF item.t = "dict"
                    THEN PyOr(Get(item.v, k_quantity), Get(item.v, k_qty))
                    ELSE JNull
         IN CoerceIngredients(Tail(items),
                IF Truthy(name) THEN Append(acc, IngredientEntry(name, qty)) ELSE acc)

\* the ingredients loop with the line-203 fallback left out
NormIngredientsNoFallback(d) ==
    LET ings == PyOr(PyOr(Get(d, k_ingredients), Get(d, k_ingredient_list)), JList(<<>>))
    IN IF ings.t = "list" THEN CoerceIngredients(ings.v, <<>>) ELSE <<>>

\* lines 191-203
NormIngredients(d) ==
    LET ings == PyOr(PyOr(Get(d, k_ingredients), Get(d, k_ingredient_list)), JList(<<>>))
        norm == IF ings.t = "list" THEN CoerceIngredients(ings.v, <<>>) ELSE <<>>
    IN IF norm # <<>> THEN norm ELSE <<FallbackIngredient>>

\* lines 209-217: the loop over steps; int(number) can raise
RECURSIVE CoerceSteps(_, _, _)
CoerceSteps(items, idx, acc) ==
    IF items = <<>> THEN [ok |-> TRUE, v |-> acc]
    ELSE LET s == Head(items)
             instruction == IF s.t = "dict"
                            THEN PyOr(PyOr(Get(s.v, k_instruction), Get(s.v, k_step)),
                                      JStr(PyStr(s)))
                            ELSE JStr(PyStr(s))
             number == IF s.t = "dict" THEN PyOr(Get(s.v, k_number), JInt(idx)) ELSE JInt(idx)
         IN IF ~Truthy(instruction) THEN CoerceSteps(Tail(items), idx + 1, acc)
            ELSE IF ~PyInt(number).ok THEN [ok |-> FALSE, v |-> <<>>]
            ELSE CoerceSteps(Tail(items), idx + 1,
                             Append(acc, StepEntry(PyInt(number).v, instruction)))

\* steps.split(".")
RECURSIVE SplitDots(_, _)
SplitDots(s, cur) ==
    IF s = <<>> THEN <<cur>>
    ELSE IF Head(s) = "." THEN <<cur>> \o SplitDots(Tail(s), <<>>)
    ELSE SplitDots(Tail(s), Append(cur, Head(s)))

\* lines 220-223
RECURSIVE SentenceSteps(_, _, _)
SentenceSteps(parts, idx, acc) ==
    IF parts = <<>> THEN acc
    ELSE IF Strip(Head(parts)) = <<>> THEN SentenceSteps(Tail(parts), idx, acc)
    ELSE SentenceSteps(Tail(parts), idx + 1,
                       Append(acc, StepEntry(idx, JStr(Strip(Head(parts))))))

\* lines 206-224
NormSteps(d) ==
    LET steps == PyOr(PyOr(Get(d, k_steps), Get(d, k_instructions)), JList(<<>>))
        norm == IF steps.t = "list" THEN CoerceSteps(steps.v, 1, <<>>)
                ELSE IF steps.t = "str" /\ Strip(steps.v) # <<>>
                THEN [ok |-> TRUE, v |-> SentenceSteps(SplitDots(steps.v, <<>>), 1, <<>>)]
                ELSE [ok |-> TRUE, v |-> <<>>]
    IN IF ~norm.ok THEN norm
       ELSE IF norm.v # <<>> THEN norm
       ELSE [ok |-> TRUE, v |-> <<FallbackStep>>]

CoerceRaised == [ok |-> FALSE, v |-> JNull]

\* lines 146-226
_coerce_recipe_dict(data) ==
    IF data.t # "dict" THEN CoerceRaised
    ELSE LET d == data.v
             raw_title == RawTitle(d)
             alt == AltTitle(d)
         IN IF Truthy(alt) /\ PyInRaises(raw_title) THEN CoerceRaised
            ELSE IF ~NormSteps(d).ok THEN CoerceRaised
            ELSE [ok |-> TRUE,
                  v |-> JDict(
                      (k_title :> TitleWithCuisine(TitleWithAlt(raw_title, alt), Get(d, k_cuisine)))
                   @@ (k_cuisine :> Get(d, k_cuisine))
                   @@ (k_servings :> JInt(to_int(GetDefault(d, k_servings, JInt(2)), 2)))
                   @@ (k_total_time_minutes :> TotalTime(d))
                   @@ (k_ingredients :> JList(NormIngredients(d)))
                   @@ (k_steps :> JList(NormSteps(d).v))
                   @@ (k_nutrition :> Get(d, k_nutrition))
                   @@ (k_tips :> Get(d, k_tips)))]

(***************************************************************************)
(* The validator: construction of a pydantic model from a dict             *)
(* (schemas.py lines 11-38).  A field typed str takes a str, an int or a   *)
(* bool; a field typed int takes what int() takes; a model-typed field     *)
(* takes a dict, or a value dict() turns into one.                         *)
(***************************************************************************)
ValidStr(v) == v.t \in {"str", "int", "bool"}
ValidOptionalStr(v) == v.t = "null" \/ ValidStr(v)
\* Field(..., ge=lo) on an int
ValidInt(v, lo) == PyInt(v).ok /\ PyInt(v).v >= lo
ValidOptionalInt(v, lo) == v.t = "null" \/ ValidInt(v, lo)
ValidList(v) == v.t = "list"

\* the dict a model is built from, for the values dict() accepts here
AsModelDict(v) ==
    IF v.t = "dict" THEN [ok |-> TRUE, v |-> v.v]
    ELSE IF (v.t = "list" /\ v.v = <<>>) \/ (v.t = "str" /\ v.v = <<>>)
    THEN [ok |-> TRUE, v |-> EmptyDict]
    ELSE [ok |-> FALSE, v |-> EmptyDict]

\* class Ingredient, lines 25-27
ValidIngredient(v) ==
    /\ AsModelDict(v).ok
    /\ k_name \in DOMAIN AsModelDict(v).v
    /\ ValidStr(AsModelDict(v).v[k_name])
    /\ ValidOptionalStr(Get(AsModelDict(v).v, k_quantity))

\* class Step, lines 20-22
ValidStep(v) ==
    /\ AsModelDict(v).ok
    /\ k_number \in DOMAIN AsModelDict(v).v
    /\ ValidInt(AsModelDict(v).v[k_number], 1)
    /\ k_instruction \in DOMAIN AsModelDict(v).v
    /\ ValidStr(AsModelDict(v).v[k_instruction])

\* class NutritionFacts, lines 11-17
NutritionKeys == {k_calories, k_protein_g, k_carbs_g, k_fat_g, k_fiber_g, k_sodium_mg}
ValidNutrition(v) ==
    /\ AsModelDict(v).ok
    /\ \A k \in NutritionKeys : ValidOptionalInt(Get(AsModelDict(v).v, k), 0)

\* class Recipe, lines 30-38: the fields that are rejected
RecipeErrors(d) ==
       (IF k_title \in DOMAIN d /\ ValidStr(d[k_title]) THEN {} ELSE {"title"})
  \cup (IF ValidOptionalStr(Get(d, k_cuisine)) THEN {} ELSE {"cuisine"})
  \cup (IF k_servings \in DOMAIN d /\ ValidInt(d[k_servings], 1) THEN {} ELSE {"servings"})
  \cup (IF ValidOptionalInt(Get(d, k_total_time_minutes), 0) THEN {} ELSE {"total_time_minutes"})
  \cup (IF /\ k_ingredients \in DOMAIN d
           /\ ValidList(d[k_ingredients])
           /\ \A i \in 1..Len(d[k_ingredients].v) : ValidIngredient(d[k_ingredients].v[i])
        THEN {} ELSE {"ingredients"})
  \cup (IF /\ k_steps \in DOMAIN d
           /\ ValidList(d[k_steps])
           /\ \A i \in 1..Len(d[k_steps].v) : ValidStep(d[k_steps].v[i])
        THEN {} ELSE {"steps"})
  \cup (IF Get(d, k_nutrition).t = "null" \/ ValidNutrition(Get(d, k_nutrition))
        THEN {} ELSE {"nutrition"})
  \cup (IF \/ Get(d, k_tips).t = "null"
           \/ /\ ValidList(Get(d, k_tips))
              /\ \A i \in 1..Len(Get(d, k_tips).v) : ValidStr(Get(d, k_tips).v[i])
        THEN {} ELSE {"tips"})

\* Recipe(**data): the record, or the ValidationError naming the fields
Recipe(data) ==
    IF RecipeErrors(data.v) = {} THEN [ok |-> TRUE, errors |-> {}]
    ELSE [ok |-> FALSE, errors |-> RecipeErrors(data.v)]

(***************************************************************************)
(* Exception messages the provider call can raise.                         *)
(***************************************************************************)
\* "Call failed after retries", the placeholder of line 58
PlaceholderExc ==
    <<"C","a","l","l"," ","f","a","i","l","e","d"," ","a","f","t","e","r"," ",
      "r","e","t","r","i","e","s">>
\* "E429"
Msg429 == <<"E","4","2","9">>
\* "Resource Exhausted"
MsgResource ==
    <<"R","e","s","o","u","r","c","e"," ","E","x","h","a","u","s","t","e","d">>
\* "QUOTA"
MsgQuota == <<"Q","U","O","T","A">>
\* "Deadline Exceeded"
MsgDeadline ==
    <<"D","e","a","d","l","i","n","e"," ","E","x","c","e","e","d","e","d">>
\* "Timeout"
MsgTimeout == <<"T","i","m","e","o","u","t">>
\* "403"
Msg403 == <<"4","0","3">>
\* "Deadline" (no marker: 'deadline exceeded' is the marker)
MsgNearMiss == <<"D","e","a","d","l","i","n","e">>

\* the messages that carry a marker of a transient condition
MarkerMessages == {Msg429, MsgResource, MsgQuota, MsgDeadline, MsgTimeout}
\* the messages that carry none
PlainMessages == {Msg403, MsgNearMiss}
Messages == MarkerMessages \cup PlainMessages
\* what a raised message is, by construction of the sets above
MessageKind(e) == IF e \in MarkerMessages THEN "marker" ELSE "plain"

(***************************************************************************)
(* Raw texts the model can return.                                         *)
(***************************************************************************)
\* {"title": "Dal", "servings": 2, "ingredients": ["rice"], "steps": ["boil"]}
TextGood ==
    <<P("{"), DQ(<<"t","i","t","l","e">>), P(":"), WS(" "), DQ(<<"D","a","l">>), P(","), DQ(<<"s","e","r","v","i","n","g","s">>), P(":"), NUM(2), P(","),
      DQ(<<"i","n","g","r","e","d","i","e","n","t","s">>), P(":"), P("["), DQ(<<"r","i","c","e">>), P("]"), P(","),
      DQ(<<"s","t","e","p","s">>), P(":"), P("["), DQ(<<"b","o","i","l">>), P("]"), P("}")>>
\* a fenced block tagged json holding {'title': 'Dal', 'steps': ['boil',]}
TextFencedSingleQuoted ==
    <<Fence, W(<<"j","s","o","n">>), WS("\n"),
      P("{"), SQ(<<"t","i","t","l","e">>), P(":"), SQ(<<"D","a","l">>), P(","), SQ(<<"s","t","e","p","s">>), P(":"),
      P("["), SQ(<<"b","o","i","l">>), P(","), P("]"), P("}"), WS("\n"), Fence>>
\* Sorry
TextProse == <<W(<<"S","o","r","r","y">>)>>
\* prose, then {"title": "Dal", "servings": 0}
TextZeroServings ==
    <<W(<<"S","u","r","e">>), WS(" "),
      P("{"), DQ(<<"t","i","t","l","e">>), P(":"), DQ(<<"D","a","l">>), P(","), DQ(<<"s","e","r","v","i","n","g","s">>), P(":"), NUM(0), P("}")>>
\* {"steps": [{"step": "boil", "number": "one"}]}
TextStepNumberWord ==
    <<P("{"), DQ(<<"s","t","e","p","s">>), P(":"), P("["), P("{"), DQ(<<"s","t","e","p">>), P(":"), DQ(<<"b","o","i","l">>), P(","),
      DQ(<<"n","u","m","b","e","r">>), P(":"), DQ(<<"o","n","e">>), P("}"), P("]"), P("}")>>

ModelTexts ==
    {TextGood, TextFencedSingleQuoted, TextProse, TextZeroServings, TextStepNumberWord}

(***************************************************************************)
(* State.  Every variable but environ and holder is a function of the      *)
(* request.                                                                *)
(***************************************************************************)
VARIABLES
    \* the frame of _call_with_retries, lines 53-75
    max_attempts,   \* parameter of the call
    initial_delay,  \* parameter of the call
    attempt,        \* loop variable of line 59
    delay,          \* local of line 57
    last_exc,       \* local of line 58
    rpc,            \* position in _call_with_retries
    result,         \* what the helper returned or raised to a direct caller
    outcomes,       \* history of the frame: one entry per invocation of call_fn
    sleeps,         \* history of the frame: the arguments of time.sleep, in order
    lastCall,       \* history of the frame: what the latest invocation of call_fn did
    \* the server process
    environ,        \* whether GEMINI_API_KEY is set, whether the SDK imports
    holder,         \* the request whose handler occupies the event loop, or 0
    \* a generation request
    pc,             \* position of the handler
    mode,           \* "text", "prompt" or "image"
    size,           \* len(image_bytes), 0 before the upload is read
    invoked,        \* history: whether the model was invoked for the request
    stages,         \* history: the pipeline stages the call performed
    cause,          \* history: where the failure arose
    response        \* the HTTP response

retryVars ==
    <<max_attempts, initial_delay, attempt, delay, last_exc, rpc, result,
      outcomes, sleeps, lastCall>>
requestVars == <<pc, mode, stages, cause, response>>
serverVars == <<environ, holder, size, requestVars>>
pipelineVars == <<retryVars, invoked, serverVars>>

\* A model text taken through the normalizer and the validator on its own
\* (openai_client.py lines 126-226, schemas.py lines 11-38)
VARIABLES
    nstage,         \* how far the value has come
    ntext,          \* the raw text of the model, <<>> when a dict is the input
    nbody,          \* history: the JSON the raw text was wrapped around
    ndata,          \* the dict parsed from the text, or given as the input
    nrecipe,        \* what _coerce_recipe_dict returned for ndata
    nagain,         \* what _coerce_recipe_dict returned for nrecipe
    nverdict        \* what Recipe(**dict) did

normVars == <<nstage, ntext, nbody, ndata, nrecipe, nagain, nverdict>>

\* A generation request taken from its submitted body to the prompt built
\* for it (schemas.py lines 51-113, main.py lines 255-320, openai_client.py
\* lines 30-50, 78-123, 229-262, 347-378)
VARIABLES
    fstage,         \* how far the request has come
    fmode,          \* the entry mode of the request
    submitted,      \* the fields of the body as they were submitted
    payload,        \* the request model the handler was given or has built
    prompt,         \* the pieces of the prompt built from the payload
    generation_config   \* the configuration the model is created with

formVars == <<fstage, fmode, submitted, payload, prompt, generation_config>>

\* The table saved_recipes and the handlers over it (database.py lines
\* 100-144, main.py lines 347-419)
VARIABLES
    saved_recipes,  \* the rows of the table
    sqlite_sequence,\* the largest id the table has handed out
    reply,          \* what the last handler answered
    saved_by        \* history: who saved the row of each id

storeVars == <<saved_recipes, sqlite_sequence, reply, saved_by>>

\* The tables users and sessions and the authentication of a request
\* (auth.py lines 5-35, database.py lines 50-98, main.py lines 229-249)
VARIABLES
    users,          \* the rows of the table users
    sessions,       \* the rows of the table sessions
    tokens_issued,  \* how many session tokens secrets.token_urlsafe has drawn
    now,            \* the clock of the server
    auth_reply,     \* what the last handler answered
    logged_in_as,   \* history: the user whose login drew each token
    issued_at,      \* history: the time each token was drawn at
    logged_out      \* history: the drawn tokens a logout was called with

authVars ==
    <<users, sessions, tokens_issued, now, auth_reply, logged_in_as, issued_at, logged_out>>

\* the variables of the parts of the program looked at on their own
asideVars == <<normVars, formVars, storeVars, authVars>>
vars == <<pipelineVars, asideVars>>

NoResult == [kind |-> "none"]
Returned(v) == [kind |-> "return", value |-> v]
Raised(e) == [kind |-> "raise", exc |-> e]

(***************************************************************************)
(* Exceptions and HTTP responses.  The text of an exception is a sequence  *)
(* of pieces: a literal of the source, the message of a provider failure   *)
(* (kept as its kind only), or the fields a ValidationError lists.         *)
(***************************************************************************)
Lit(x) == [lit |-> x]
\* str(e) of a provider failure, whatever its message
MsgPiece == [msg |-> "provider message"]
FieldsPiece(f) == [fields |-> f]
Exc(type, text) == [type |-> type, text |-> text]
NoExc == Exc("none", <<>>)

HttpResponse(status, detail) == [status |-> status, detail |-> detail]
NoResponse == HttpResponse(0, <<>>)
\* RecipeResponse(recipe=recipe)
RecipeResponse == HttpResponse(200, <<>>)

(***************************************************************************)
(* generate_recipe_from_text / _from_prompt / _from_image,                 *)
(* openai_client.py lines 265-407                                          *)
(***************************************************************************)
\* lines 286, 337, 400: the prefix of the ValueError of the first try block
GenerationPrefix(m) ==
    IF m = "image" THEN "Image analysis failed: " ELSE "Recipe generation failed: "
\* lines 293, 344, 407: the prefix of the ValueError of the second try block
ParsePrefix(m) ==
    IF m = "image" THEN "Failed to parse image model output as Recipe JSON: "
    ELSE "Failed to parse model output as Recipe JSON: "

Failure(stgs, exc, why) == [ok |-> FALSE, stages |-> stgs, exc |-> exc, cause |-> why]
Success(stgs) == [ok |-> TRUE, stages |-> stgs, exc |-> NoExc, cause |-> "none"]

PrepareGenerationKeyLast(m, env, decodable) ==
    IF ~env.genai
    THEN Failure(<<"build">>,
                 Exc("ValueError", <<Lit(GenerationPrefix(m)),
                                     Lit("Missing required package 'google-generativeai'")>>),
                 "import")
    ELSE IF m = "image" /\ ~decodable
    THEN Failure(<<"build", "decode">>,
                 Exc("ValueError", <<Lit(GenerationPrefix(m)),
                                     Lit("Failed to process image: "),
                                     Lit("cannot identify image file")>>),
                 "image_decode")
    ELSE IF ~env.api_key
    THEN Failure(IF m = "image" THEN <<"build", "decode">> ELSE <<"build">>,
                 Exc("RuntimeError", <<Lit("Missing GEMINI_API_KEY in environment")>>),
                 "config")
    ELSE Success(IF m = "image" THEN <<"build", "decode">> ELSE <<"build">>)
\* lines 266-280, 301-328, 382-395: everything before the model is called
PrepareGeneration(m, env, decodable) ==
    IF ~env.api_key
    THEN \* _get_api_key, lines 23-27
         Failure(<<>>, Exc("RuntimeError", <<Lit("Missing GEMINI_API_KEY in environment")>>),
                 "config")
    ELSE IF ~env.genai
    THEN Failure(<<"build">>,
                 Exc("ValueError", <<Lit(GenerationPrefix(m)),
                                     Lit("Missing required package 'google-generativeai'")>>),
                 "import")
    ELSE IF m = "image" /\ ~decodable
    THEN \* line 321, caught and wrapped again at lines 335-337
         Failure(<<"build", "decode">>,
                 Exc("ValueError", <<Lit(GenerationPrefix(m)),
                                     Lit("Failed to process image: "),
                                     Lit("cannot identify image file")>>),
                 "image_decode")
    ELSE Success(IF m = "image" THEN <<"build", "decode">> ELSE <<"build">>)

\* lines 288-293, 339-344, 402-407
ParseWithoutValidation(m, text) ==
    LET parsed == _extract_and_normalize_json(text)
        coerced == _coerce_recipe_dict(parsed.v)
    IN IF ~parsed.ok
       THEN Failure(<<"normalize">>,
                    Exc("ValueError", <<Lit(ParsePrefix(m)), Lit("JSONDecodeError")>>), "parse")
       ELSE IF ~coerced.ok
       THEN Failure(<<"normalize">>,
                    Exc("ValueError", <<Lit(ParsePrefix(m)), Lit("coercion error")>>), "coerce")
       ELSE Success(<<"normalize">>)
ParseAndValidate(m, text) ==
    LET parsed == _extract_and_normalize_json(text)
        coerced == _coerce_recipe_dict(parsed.v)
    IN IF ~parsed.ok
       THEN Failure(<<"normalize">>,
                    Exc("ValueError", <<Lit(ParsePrefix(m)), Lit("JSONDecodeError")>>), "parse")
       ELSE IF ~coerced.ok
       THEN Failure(<<"normalize">>,
                    Exc("ValueError", <<Lit(ParsePrefix(m)), Lit("coercion error")>>), "coerce")
       ELSE IF ~Recipe(coerced.v).ok
       THEN Failure(<<"normalize", "validate">>,
                    Exc("ValueError", <<Lit(ParsePrefix(m)),
                                        FieldsPiece(Recipe(coerced.v).errors)>>),
                    "validation")
       ELSE Success(<<"normalize", "validate">>)

GenerationModes == {"text", "prompt", "image"}
\* ParseAndValidate of every text, computed once
TextOutcome == [m \in GenerationModes |-> [t \in ModelTexts |-> ParseAndValidate(m, t)]]

\* lines 282-293, 332-344, 396-407: everything after _call_with_retries
FinishGeneration(m, res) ==
    IF res.kind = "raise"
    THEN Failure(<<>>, Exc("ValueError", <<Lit(GenerationPrefix(m)), MsgPiece>>), "provider")
    ELSE TextOutcome[m][res.value]

(***************************************************************************)
(* The handlers of main.py                                                 *)
(***************************************************************************)
\* main.py line 327: 25 MB
MaxImageBytes == 25 * 1024 * 1024
ImageSizes == {MaxImageBytes, MaxImageBytes + 1}
ImageTooLargeInclusive(n) == n >= MaxImageBytes
ImageTooLarge(n) == n > MaxImageBytes

\* the except clauses of main.py lines 262-269, 277-284 and 337-344
HandlerError(m, exc) ==
    IF exc.type = "ValidationError" THEN HttpResponse(422, exc.text)
    ELSE IF exc.type = "ValueError" THEN HttpResponse(400, exc.text)
    ELSE HttpResponse(500,
            <<Lit(IF m = "image" THEN "Image processing failed: "
                  ELSE "Recipe generation failed: ")>> \o exc.text)

Respond(r, m, resp, stgs, why) ==
    /\ response' = [response EXCEPT ![r] = resp]
    /\ stages' = [stages EXCEPT ![r] = @ \o stgs]
    /\ cause' = [cause EXCEPT ![r] = why]
    /\ mode' = [mode EXCEPT ![r] = m]
    /\ pc' = [pc EXCEPT ![r] = "done"]

(***************************************************************************)
(* _call_with_retries, lines 53-75                                         *)
(***************************************************************************)
\* line 53: the defaults of max_attempts and initial_delay (1.0 s)
DefaultMaxAttempts == 4
DefaultInitialDelay == 1

\* line 64 and the condition of line 66
HasMarker(msg) ==
    \/ Contains(msg, <<"4","2","9">>)
    \/ Contains(msg, <<"r","e","s","o","u","r","c","e"," ","e","x","h","a","u","s","t","e","d">>)
    \/ Contains(msg, <<"q","u","o","t","a">>)
    \/ Contains(msg, <<"d","e","a","d","l","i","n","e"," ","e","x","c","e","e","d","e","d">>)
    \/ Contains(msg, <<"t","i","m","e","o","u","t">>)
IsTransientCaseSensitive(msg) == HasMarker(msg)
IsTransientAlways(msg) == TRUE
IsTransient(msg) == HasMarker(Lower(msg))
\* IsTransient of every message, computed once
Transient == [e \in Messages |-> IsTransient(e)]

\* line 70: delay *= 2
NextDelayLinear(d, d0) == d + d0
NextDelay(d, d0) == d * 2

\* line 63: last_exc = e
RecordExceptionFirst(prev, e) == IF prev = PlaceholderExc THEN e ELSE prev
RecordException(prev, e) == e

\* lines 57-58: entry into _call_with_retries
EnterRetry(r, ma, d0) ==
    /\ max_attempts' = [max_attempts EXCEPT ![r] = ma]
    /\ initial_delay' = [initial_delay EXCEPT ![r] = d0]
    /\ attempt' = [attempt EXCEPT ![r] = 1]
    /\ delay' = [delay EXCEPT ![r] = d0]
    /\ last_exc' = [last_exc EXCEPT ![r] = PlaceholderExc]
    /\ rpc' = [rpc EXCEPT ![r] = "try"]
    /\ result' = [result EXCEPT ![r] = NoResult]
    /\ outcomes' = [outcomes EXCEPT ![r] = <<>>]
    /\ sleeps' = [sleeps EXCEPT ![r] = <<>>]
    /\ lastCall' = [lastCall EXCEPT ![r] = NoResult]

\* lines 61, 73, 75: the helper returns or raises res.  Returning to a
\* handler, its frame is gone and only res is left, for the handler to go on
\* with; called on its own, the frame and its history stay to be looked at.
LeaveRetry(r, res, kind, call, le) ==
    /\ rpc' = [rpc EXCEPT ![r] = IF res.kind = "return" THEN "returned" ELSE "raised"]
    /\ result' = [result EXCEPT ![r] = res]
    /\ IF pc[r] = "calling"
       THEN /\ max_attempts' = [max_attempts EXCEPT ![r] = 0]
            /\ initial_delay' = [initial_delay EXCEPT ![r] = 0]
            /\ attempt' = [attempt EXCEPT ![r] = 0]
            /\ delay' = [delay EXCEPT ![r] = 0]
            /\ last_exc' = [last_exc EXCEPT ![r] = PlaceholderExc]
            /\ outcomes' = [outcomes EXCEPT ![r] = <<>>]
            /\ sleeps' = [sleeps EXCEPT ![r] = <<>>]
            /\ lastCall' = [lastCall EXCEPT ![r] = NoResult]
       ELSE /\ outcomes' = [outcomes EXCEPT ![r] = Append(@, kind)]
            /\ lastCall' = [lastCall EXCEPT ![r] = call]
            /\ last_exc' = [last_exc EXCEPT ![r] = le]
            /\ UNCHANGED <<max_attempts, initial_delay, attempt, delay, sleeps>>
    /\ UNCHANGED serverVars

\* line 61: call_fn returns
CallReturns(r) ==
    /\ rpc[r] = "try"
    /\ invoked' = [invoked EXCEPT ![r] = TRUE]
    /\ \E v \in ModelTexts : LeaveRetry(r, Returned(v), "ok", Returned(v), last_exc[r])
    /\ UNCHANGED asideVars

\* lines 61-73: call_fn raises e and the handler of line 62 runs, up to the
\* sleep or to the raise
CallRaises(r) ==
    /\ rpc[r] = "try"
    /\ invoked' = [invoked EXCEPT ![r] = TRUE]
    /\ UNCHANGED asideVars
    /\ \E e \in Messages :
        LET le == RecordException(last_exc[r], e) IN
        IF Transient[e] /\ attempt[r] # max_attempts[r]
        THEN \* line 69: time.sleep(delay)
             /\ rpc' = [rpc EXCEPT ![r] = "sleep"]
             /\ sleeps' = [sleeps EXCEPT ![r] = Append(@, delay[r])]
             /\ outcomes' = [outcomes EXCEPT ![r] = Append(@, MessageKind(e))]
             /\ lastCall' = [lastCall EXCEPT ![r] = Raised(e)]
             /\ last_exc' = [last_exc EXCEPT ![r] = le]
             /\ UNCHANGED <<max_attempts, initial_delay, attempt, delay, result>>
             /\ UNCHANGED serverVars
        ELSE IF Transient[e]
        THEN \* line 68 break, line 75 raise last_exc
             LeaveRetry(r, Raised(le), MessageKind(e), Raised(e), le)
        ELSE \* line 73 raise
             LeaveRetry(r, Raised(e), MessageKind(e), Raised(e), le)

\* lines 69-71: time.sleep returns, delay doubles, the loop continues
SleepReturns(r) ==
    /\ rpc[r] = "sleep"
    /\ delay' = [delay EXCEPT ![r] = NextDelay(@, initial_delay[r])]
    /\ attempt' = [attempt EXCEPT ![r] = @ + 1]
    /\ rpc' = [rpc EXCEPT ![r] = "try"]
    /\ UNCHANGED <<max_attempts, initial_delay, last_exc, result, outcomes, sleeps, lastCall>>
    /\ UNCHANGED <<invoked, serverVars>>
    /\ UNCHANGED asideVars

(***************************************************************************)
(* The handlers up to the first invocation of the model                    *)
(***************************************************************************)
\* generate_recipe_from_*: from its first line to the call of
\* _call_with_retries
BeginGeneration(r, m, decodable) ==
    LET prep == PrepareGeneration(m, environ, decodable) IN
    IF prep.ok
    THEN /\ EnterRetry(r, DefaultMaxAttempts, DefaultInitialDelay)
         /\ stages' = [stages EXCEPT ![r] = @ \o prep.stages \o <<"invoke">>]
         /\ mode' = [mode EXCEPT ![r] = m]
         /\ pc' = [pc EXCEPT ![r] = "calling"]
         /\ holder' = r
         /\ UNCHANGED <<cause, response>>
    ELSE /\ Respond(r, m, HandlerError(m, prep.exc), prep.stages, prep.cause)
         /\ UNCHANGED holder
         /\ UNCHANGED retryVars

\* recipe_from_text and recipe_from_prompt, main.py lines 257-284: the
\* handler runs on the event loop from its start to the first model call
StartText(r) ==
    /\ pc[r] = "new"
    /\ holder = 0
    /\ \E m \in {"text", "prompt"} : BeginGeneration(r, m, TRUE)
    /\ UNCHANGED <<environ, size, invoked>>
    /\ UNCHANGED asideVars

\* recipe_from_image, main.py lines 293-326: the preferences are parsed and
\* the handler awaits image.read()
StartImage(r) ==
    /\ pc[r] = "new"
    /\ holder = 0
    /\ \E prefs_ok \in BOOLEAN :
        IF prefs_ok
        THEN /\ pc' = [pc EXCEPT ![r] = "reading"]
             /\ mode' = [mode EXCEPT ![r] = "image"]
             /\ UNCHANGED <<stages, cause, response>>
        ELSE Respond(r, "image", HttpResponse(422, <<Lit("Invalid preferences: ")>>),
                     <<>>, "preferences")
    /\ UNCHANGED <<environ, holder, size, invoked>>
    /\ UNCHANGED asideVars
    /\ UNCHANGED retryVars

\* recipe_from_image, main.py lines 326-344: the upload is read, checked
\* and handed to generate_recipe_from_image
ReadImage(r) ==
    /\ pc[r] = "reading"
    /\ holder = 0
    /\ \E n \in ImageSizes, ctype_ok \in BOOLEAN, decodable \in BOOLEAN :
        /\ size' = [size EXCEPT ![r] = n]
        /\ IF ImageTooLarge(n)
           THEN /\ Respond(r, "image",
                           HttpResponse(413, <<Lit("Image file too large (max 25MB)")>>),
                           <<>>, "size")
                /\ UNCHANGED holder
                /\ UNCHANGED retryVars
           ELSE IF ~ctype_ok
           THEN /\ Respond(r, "image",
                           HttpResponse(422, <<Lit("Please upload a valid image file")>>),
                           <<>>, "content_type")
                /\ UNCHANGED holder
                /\ UNCHANGED retryVars
           ELSE BeginGeneration(r, "image", decodable)
    /\ UNCHANGED <<environ, invoked>>
    /\ UNCHANGED asideVars

\* the rest of a handler once _call_with_retries has returned or raised:
\* main.py lines 259-269, 274-284, 332-344 with openai_client.py lines
\* 282-293, 332-344, 396-407.  It runs to its response without leaving the
\* event loop.
Finish(r) ==
    LET fin == FinishGeneration(mode[r], result[r]) IN
    /\ pc[r] = "calling"
    /\ rpc[r] \in {"returned", "raised"}
    /\ Respond(r, mode[r],
               IF fin.ok THEN RecipeResponse ELSE HandlerError(mode[r], fin.exc),
               fin.stages, fin.cause)
    /\ holder' = 0
    /\ rpc' = [rpc EXCEPT ![r] = "idle"]
    /\ result' = [result EXCEPT ![r] = NoResult]
    /\ UNCHANGED <<max_attempts, initial_delay, attempt, delay, last_exc,
                   outcomes, sleeps, lastCall>>
    /\ UNCHANGED <<environ, size, invoked>>
    /\ UNCHANGED asideVars

\* the normalizer not in use
NormIdle ==
    /\ nstage = "idle"
    /\ ntext = <<>>
    /\ nbody = <<>>
    /\ ndata = JNull
    /\ nrecipe = JNull
    /\ nagain = JNull
    /\ nverdict = {}

Absent == [t |-> "absent"]
NoPayload == [ok |-> FALSE, v |-> JNull]
NoPrompt == [ingredients |-> <<>>, servings |-> JNull, language |-> JNull, variation |-> <<>>]
NoConfig == [temperature |-> "none"]

FormIdle ==
    /\ fstage = "idle"
    /\ fmode = "none"
    /\ submitted = EmptyDict
    /\ payload = NoPayload
    /\ prompt = NoPrompt
    /\ generation_config = NoConfig

NoReply == [op |-> "none", user_id |-> 0, recipe_id |-> 0, status |-> 0, rows |-> {}]

StoreIdle ==
    /\ saved_recipes = {}
    /\ sqlite_sequence = 0
    /\ reply = NoReply
    /\ saved_by = <<>>

NoToken == 0
NoAuthReply == [op |-> "none", token |-> NoToken, status |-> 0, current_user |-> 0, handled |-> FALSE]

AuthIdle ==
    /\ users = {}
    /\ sessions = {}
    /\ tokens_issued = 0
    /\ now = 0
    /\ auth_reply = NoAuthReply
    /\ logged_in_as = <<>>
    /\ issued_at = <<>>
    /\ logged_out = {}

AsideIdle == NormIdle /\ FormIdle /\ StoreIdle /\ AuthIdle

(***************************************************************************)
(* The server: NumRequests authenticated generation requests.              *)
(***************************************************************************)
Init ==
    /\ max_attempts = [r \in Req |-> 0]
    /\ initial_delay = [r \in Req |-> 0]
    /\ attempt = [r \in Req |-> 0]
    /\ delay = [r \in Req |-> 0]
    /\ last_exc = [r \in Req |-> PlaceholderExc]
    /\ rpc = [r \in Req |-> "idle"]
    /\ result = [r \in Req |-> NoResult]
    /\ outcomes = [r \in Req |-> <<>>]
    /\ sleeps = [r \in Req |-> <<>>]
    /\ lastCall = [r \in Req |-> NoResult]
    /\ environ \in [api_key : BOOLEAN, genai : BOOLEAN]
    /\ holder = 0
    /\ pc = [r \in Req |-> "new"]
    /\ mode = [r \in Req |-> "none"]
    /\ size = [r \in Req |-> 0]
    /\ invoked = [r \in Req |-> FALSE]
    /\ stages = [r \in Req |-> <<>>]
    /\ cause = [r \in Req |-> "none"]
    /\ response = [r \in Req |-> NoResponse]
    /\ AsideIdle

Next ==
    \E r \in Req :
        \/ StartText(r)
        \/ StartImage(r)
        \/ ReadImage(r)
        \/ CallReturns(r)
        \/ CallRaises(r)
        \/ SleepReturns(r)
        \/ Finish(r)

Spec == Init /\ [][Next]_vars

(***************************************************************************)
(* _call_with_retries called on its own by request 1, with every           *)
(* max_attempts >= 1 and every initial_delay within the bounds.            *)
(***************************************************************************)
InitRetry ==
    /\ max_attempts \in [Req -> 1..MaxAttemptsBound]
    /\ initial_delay \in [Req -> 1..MaxInitialDelay]
    /\ \A r \in Req : r # 1 => max_attempts[r] = 1 /\ initial_delay[r] = 1
    /\ attempt = [r \in Req |-> 1]
    /\ delay = initial_delay
    /\ last_exc = [r \in Req |-> PlaceholderExc]
    /\ rpc = [r \in Req |-> IF r = 1 THEN "try" ELSE "idle"]
    /\ result = [r \in Req |-> NoResult]
    /\ outcomes = [r \in Req |-> <<>>]
    /\ sleeps = [r \in Req |-> <<>>]
    /\ lastCall = [r \in Req |-> NoResult]
    /\ environ = [api_key |-> TRUE, genai |-> TRUE]
    /\ holder = 0
    /\ pc = [r \in Req |-> "direct"]
    /\ mode = [r \in Req |-> "none"]
    /\ size = [r \in Req |-> 0]
    /\ invoked = [r \in Req |-> FALSE]
    /\ stages = [r \in Req |-> <<>>]
    /\ cause = [r \in Req |-> "none"]
    /\ response = [r \in Req |-> NoResponse]
    /\ AsideIdle

NextRetry ==
    \E r \in Req : CallReturns(r) \/ CallRaises(r) \/ SleepReturns(r)

SpecRetry == InitRetry /\ [][NextRetry]_vars

(***************************************************************************)
(* The normalizer and the validator on their own: a raw text, or a dict,   *)
(* is the input; _extract_and_normalize_json, _coerce_recipe_dict and the  *)
(* construction of a Recipe are applied to it.                             *)
(***************************************************************************)
\* the server with no request in it
PipelineIdle ==
    /\ max_attempts = [r \in Req |-> 0]
    /\ initial_delay = [r \in Req |-> 0]
    /\ attempt = [r \in Req |-> 0]
    /\ delay = [r \in Req |-> 0]
    /\ last_exc = [r \in Req |-> PlaceholderExc]
    /\ rpc = [r \in Req |-> "idle"]
    /\ result = [r \in Req |-> NoResult]
    /\ outcomes = [r \in Req |-> <<>>]
    /\ sleeps = [r \in Req |-> <<>>]
    /\ lastCall = [r \in Req |-> NoResult]
    /\ environ = [api_key |-> TRUE, genai |-> TRUE]
    /\ holder = 0
    /\ pc = [r \in Req |-> "new"]
    /\ mode = [r \in Req |-> "none"]
    /\ size = [r \in Req |-> 0]
    /\ invoked = [r \in Req |-> FALSE]
    /\ stages = [r \in Req |-> <<>>]
    /\ cause = [r \in Req |-> "none"]
    /\ response = [r \in Req |-> NoResponse]

s_Dal == <<"D","a","l">>
s_Daal == <<"D","a","a","l">>
s_rice == <<"r","i","c","e">>
s_cup == <<"1"," ","c","u","p">>
s_boil == <<"b","o","i","l">>
s_serve == <<"s","e","r","v","e">>
s_indian == <<"i","n","d","i","a","n">>
s_Indian == <<"I","n","d","i","a","n">>
s_one == <<"o","n","e">>
s_json == <<"j","s","o","n">>
s_LentilStew == <<"L","e","n","t","i","l"," ","S","t","e","w">>
s_punjabi == <<"p","u","n","j","a","b","i">>

\* a dict in the shape of class Recipe
CanonDict ==
       (k_title :> JStr(s_Dal))
    @@ (k_cuisine :> JNull)
    @@ (k_servings :> JInt(2))
    @@ (k_total_time_minutes :> JInt(30))
    @@ (k_ingredients :> JList(<<IngredientEntry(JStr(s_rice), JStr(s_cup))>>))
    @@ (k_steps :> JList(<<StepEntry(1, JStr(s_boil))>>))
    @@ (k_nutrition :> JNull)
    @@ (k_tips :> JNull)

\* values a model gives the fields of its JSON object, good and bad
FieldValues ==
    {<<k_title, JStr(<<>>)>>, <<k_title, JInt(5)>>,
     <<k_cuisine, JStr(s_Indian)>>, <<k_cuisine, JStr(s_indian)>>, <<k_cuisine, JStr(<<" ">>)>>,
     <<k_servings, JInt(0)>>, <<k_servings, JInt(0 - 1)>>, <<k_servings, JStr(<<"4">>)>>,
     <<k_servings, JStr(s_one)>>,
     <<k_total_time_minutes, JInt(0)>>, <<k_total_time_minutes, JInt(0 - 5)>>,
     <<k_total_time_minutes, JNull>>,
     <<k_ingredients, JList(<<>>)>>,
     <<k_ingredients, JList(<<IngredientEntry(JStr(<<>>), JNull)>>)>>,
     <<k_ingredients, JList(<<JDict(k_quantity :> JStr(s_cup))>>)>>,
     <<k_ingredients, JList(<<JDict((k_ingredient :> JStr(s_rice)) @@ (k_qty :> JStr(s_cup)))>>)>>,
     <<k_ingredients, JList(<<JStr(<<>>)>>)>>,
     <<k_ingredients, JList(<<JStr(s_rice), JStr(<<>>), JStr(s_Dal)>>)>>,
     <<k_ingredients, JList(<<JNull>>)>>,
     <<k_ingredients, JStr(s_rice)>>,
     <<k_ingredients, JList(<<IngredientEntry(JStr(s_rice), JNull),
                              IngredientEntry(JStr(s_Dal), JStr(<<>>))>>)>>,
     <<k_steps, JList(<<>>)>>,
     <<k_steps, JList(<<StepEntry(0, JStr(s_boil))>>)>>,
     <<k_steps, JList(<<StepEntry(1, JStr(<<>>))>>)>>,
     <<k_steps, JList(<<JDict((k_step :> JStr(s_boil)) @@ (k_number :> JStr(s_one)))>>)>>,
     <<k_steps, JList(<<JDict(k_instruction :> JStr(s_boil)), JStr(s_serve)>>)>>,
     <<k_steps, JList(<<JStr(<<>>)>>)>>,
     <<k_steps, JStr(<<"B","o","i","l",".", " ", "S","e","r","v","e",".">>)>>,
     <<k_steps, JStr(<<" ">>)>>,
     <<k_steps, JInt(3)>>,
     <<k_nutrition, JDict(k_calories :> JInt(0 - 1))>>,
     <<k_nutrition, JDict(k_protein_g :> JInt(0 - 2))>>,
     <<k_nutrition, JDict(k_calories :> JInt(100))>>,
     <<k_tips, JList(<<JStr(s_serve)>>)>>,
     <<k_title_en, JStr(s_Daal)>>, <<k_title_en, JStr(s_Dal)>>}

\* objects that are not in the shape of class Recipe at all
LooseDicts ==
    {EmptyDict,
     (k_name :> JStr(s_Dal)),
     (k_recipe_name :> JStr(s_Dal)) @@ (k_ingredient_list :> JList(<<JStr(s_rice)>>))
         @@ (k_instructions :> JList(<<JStr(s_boil)>>)) @@ (k_time_minutes :> JStr(<<"2","0">>)),
     (k_title :> JInt(5)) @@ (k_title_en :> JStr(<<"F","i","v","e">>)),
     (k_title :> JStr(s_Dal)) @@ (k_cuisine :> JStr(s_indian)) @@ (k_transliteration :> JStr(s_Daal)),
     (k_title :> JStr(s_Dal)) @@ (k_title_en :> JStr(s_LentilStew)) @@ (k_cuisine :> JStr(s_punjabi)),
     (k_title :> JStr(<<>>)) @@ (k_recipe_name :> JStr(s_Dal)) @@ (k_name_en :> JStr(<<" ">> \o s_Daal))
         @@ (k_english_title :> JStr(s_rice)) @@ (k_cuisine :> JStr(<<"P","U","N","J","A","B","I">>)),
     (k_title :> JStr(s_Dal)) @@ (k_title_en :> JStr(<<" ">>)) @@ (k_transliteration :> JStr(s_Daal)),
     (k_servings :> JStr(<<"4">>)) @@ (k_time_minutes :> JInt(20)) @@ (k_total_time_minutes :> JNull),
     (k_servings :> JBool(TRUE)) @@ (k_time_minutes :> JStr(s_one)),
     (k_servings :> JNull) @@ (k_time_minutes :> JInt(0))}

NormDicts ==
    {JDict(CanonDict)} \cup {JDict(Put(CanonDict, p[1], p[2])) : p \in FieldValues}
        \cup {JDict(d) : d \in LooseDicts}

\* {"title": "Dal"}
BodySmall == <<P("{"), DQ(k_title), P(":"), WS(" "), DQ(s_Dal), P("}")>>
\* {"title": 5, "title_en": "Dal"}
BodyTitleNumber ==
    <<P("{"), DQ(k_title), P(":"), NUM(5), P(","), DQ(k_title_en), P(":"), DQ(s_Dal), P("}")>>
\* ["rice"]
BodyList == <<P("["), DQ(s_rice), P("]")>>
JsonBodies == {TextGood, TextStepNumberWord, BodySmall, BodyTitleNumber, BodyList}

WrapForms ==
    {"bare", "fence json newline", "fence newline", "fence json", "fence", "prose",
     "prose with braces", "prose with closing brace"}
\* the raw text a model wraps around a JSON body
Wrap(form, body) ==
    CASE form = "bare" -> body
      [] form = "fence json newline" ->
            <<Fence, W(s_json), WS("\n")>> \o body \o <<WS("\n"), Fence>>
      [] form = "fence newline" -> <<Fence, WS("\n")>> \o body \o <<WS("\n"), Fence>>
      [] form = "fence json" -> <<Fence, W(s_json)>> \o body \o <<Fence>>
      [] form = "fence" -> <<Fence>> \o body \o <<Fence>>
      [] form = "prose" -> <<W(<<"S","u","r","e">>), WS(" ")>> \o body \o <<WS("\n")>>
      [] form = "prose with braces" ->
            <<W(<<"U","s","e">>), WS(" "), P("{"), W(s_rice), P("}"), P(":"), WS(" ")>> \o body
      [] form = "prose with closing brace" ->
            <<W(<<"S","u","r","e">>), P("}"), WS(" ")>> \o body \o <<WS("\n")>>

IsFenced(text) == text # <<>> /\ IsFence(Head(text))

InitNormalize ==
    /\ PipelineIdle
    /\ FormIdle
    /\ StoreIdle
    /\ AuthIdle
    /\ \/ /\ nstage = "text"
          /\ \/ \E form \in WrapForms : \E body \in JsonBodies :
                   ntext = Wrap(form, body) /\ nbody = body
             \/ \E t \in ModelTexts : ntext = t /\ nbody = t
          /\ ndata = JNull
       \/ /\ nstage = "dict"
          /\ ntext = <<>>
          /\ nbody = <<>>
          /\ ndata \in NormDicts
    /\ nrecipe = JNull
    /\ nagain = JNull
    /\ nverdict = {}

\* data = _extract_and_normalize_json(text), lines 289, 340, 403
Extract ==
    /\ nstage = "text"
    /\ LET parsed == _extract_and_normalize_json(ntext) IN
          /\ ndata' = parsed.v
          /\ nstage' = IF parsed.ok THEN "parsed" ELSE "parse error"
    /\ UNCHANGED <<ntext, nbody, nrecipe, nagain, nverdict>>
    /\ UNCHANGED <<pipelineVars, formVars, storeVars, authVars>>

\* data = _coerce_recipe_dict(data), lines 290, 341, 404; applied once more
\* to its own result
Coerce ==
    /\ nstage \in {"dict", "parsed", "coerced"}
    /\ LET coerced == _coerce_recipe_dict(IF nstage = "coerced" THEN nrecipe ELSE ndata) IN
          IF nstage = "coerced"
          THEN /\ nagain' = coerced.v
               /\ nstage' = IF coerced.ok THEN "coerced twice" ELSE "coerce error"
               /\ UNCHANGED nrecipe
          ELSE /\ nrecipe' = coerced.v
               /\ nstage' = IF coerced.ok THEN "coerced" ELSE "coerce error"
               /\ UNCHANGED nagain
    /\ UNCHANGED <<ntext, nbody, ndata, nverdict>>
    /\ UNCHANGED <<pipelineVars, formVars, storeVars, authVars>>

\* Recipe(**data), lines 291, 342, 405: on the coerced dict, or on a dict as
\* it is given
Validate ==
    /\ nstage \in {"dict", "coerced"}
    /\ LET built == Recipe(IF nstage = "coerced" THEN nrecipe ELSE ndata) IN
          /\ nverdict' = built.errors
          /\ nstage' = IF nstage = "coerced"
                       THEN (IF built.ok THEN "validated" ELSE "validation error")
                       ELSE (IF built.ok THEN "accepted" ELSE "rejected")
    /\ UNCHANGED <<ntext, nbody, ndata, nrecipe, nagain>>
    /\ UNCHANGED <<pipelineVars, formVars, storeVars, authVars>>

NextNormalize == Extract \/ Coerce \/ Validate

SpecNormalize == InitNormalize /\ [][NextNormalize]_vars

(***************************************************************************)
(* The request models and the prompt builders.  A request body is a        *)
(* function from field names to values; a field the body leaves out is not *)
(* in its domain.  A model construction gives ok = FALSE where pydantic    *)
(* raises ValidationError.                                                 *)
(***************************************************************************)
k_language == <<"l","a","n","g","u","a","g","e">>
k_prompt == <<"p","r","o","m","p","t">>
k_cooking_time_limit_minutes == <<"c","o","o","k","i","n","g","_","t","i","m","e">>
k_variation == <<"v","a","r","i","a","t","i","o","n">>
s_english == <<"e","n","g","l","i","s","h">>
s_en == <<"e","n">>
s_hindi == <<"h","i","n","d","i">>
s_tamil == <<"t","a","m","i","l">>
s_french == <<"f","r","e","n","c","h">>
s_aloo == <<"a","l","o","o">>
s_matar == <<"m","a","t","a","r">>

\* schemas.py lines 64-69 and 80-85
normalize_language(value) ==
    IF ~Truthy(value) THEN JNull
    ELSE LET normalized == Lower(Strip(value.v))
         IN IF normalized # <<>> THEN JStr(normalized) ELSE JNull

\* schemas.py lines 60-62
RECURSIVE normalize_ingredients(_)
normalize_ingredients(v) ==
    IF v = <<>> THEN <<>>
    ELSE IF Head(v) # <<>> /\ Strip(Head(v)) # <<>>
         THEN <<Strip(Head(v))>> \o normalize_ingredients(Tail(v))
         ELSE normalize_ingredients(Tail(v))

\* Optional[int] = Field(default, ge=1), schemas.py lines 53, 56, 73, 76, 111
OptionalIntField(body, k, default) ==
    IF k \notin DOMAIN body THEN [ok |-> TRUE, v |-> default]
    ELSE IF body[k].t = "null" THEN [ok |-> TRUE, v |-> JNull]
    ELSE IF PyInt(body[k]).ok /\ PyInt(body[k]).v >= 1
         THEN [ok |-> TRUE, v |-> JInt(PyInt(body[k]).v)]
         ELSE [ok |-> FALSE, v |-> JNull]

\* language: Optional[str] = Field("english") under the validator of lines
\* 64-69; a validator is not run on the default of a field left out
LanguageField(body) ==
    IF k_language \notin DOMAIN body THEN JStr(s_english)
    ELSE normalize_language(body[k_language])

\* variation: Optional[bool] = Field(False), schemas.py lines 58, 78, 113
VariationField(body) == GetDefault(body, k_variation, JBool(FALSE))

\* schemas.py lines 51-69.  conlist(str, min_items=1) checks the length of
\* the list as submitted; normalize_ingredients runs on the list after it
RecipeFromTextRequest(body) ==
    LET servings == OptionalIntField(body, k_servings, JInt(2))
        limit == OptionalIntField(body, k_cooking_time_limit_minutes, JNull)
    IN IF \/ k_ingredients \notin DOMAIN body
          \/ body[k_ingredients].t # "list"
          \/ Len(body[k_ingredients].v) < 1
          \/ ~servings.ok
          \/ ~limit.ok
       THEN NoPayload
       ELSE [ok |-> TRUE,
             v |-> (k_ingredients :> normalize_ingredients(body[k_ingredients].v))
                @@ (k_servings :> servings.v)
                @@ (k_cooking_time_limit_minutes :> limit.v)
                @@ (k_language :> LanguageField(body))
                @@ (k_variation :> VariationField(body))]

\* schemas.py lines 72-85
ImageRecipePreferences(body) ==
    LET servings == OptionalIntField(body, k_servings, JInt(2))
        limit == OptionalIntField(body, k_cooking_time_limit_minutes, JNull)
    IN IF ~servings.ok \/ ~limit.ok THEN NoPayload
       ELSE [ok |-> TRUE,
             v |-> (k_servings :> servings.v)
                @@ (k_cooking_time_limit_minutes :> limit.v)
                @@ (k_language :> LanguageField(body))
                @@ (k_variation :> VariationField(body))]

\* schemas.py lines 109-113: prompt has min_length=3 and max_length=500,
\* and language has no validator
RecipeFromPromptRequest(body) ==
    LET servings == OptionalIntField(body, k_servings, JInt(2))
    IN IF \/ k_prompt \notin DOMAIN body
          \/ Len(body[k_prompt]) < 3
          \/ Len(body[k_prompt]) > 500
          \/ ~servings.ok
       THEN NoPayload
       ELSE [ok |-> TRUE,
             v |-> (k_prompt :> body[k_prompt])
                @@ (k_servings :> servings.v)
                @@ (k_language :> GetDefault(body, k_language, JStr(s_english)))
                @@ (k_variation :> VariationField(body))]

\* main.py lines 297-302 and 315-320
PreferenceDefaults ==
    (k_servings :> JInt(1)) @@ (k_cooking_time_limit_minutes :> JInt(60))
        @@ (k_language :> JStr(s_en)) @@ (k_variation :> JBool(FALSE))

\* main.py lines 293-322: preferences_json is left out, is a JSON object, or
\* is anything else
ImagePreferences(form) ==
    CASE form.preferences_json = "absent" -> ImageRecipePreferences(PreferenceDefaults)
      [] form.preferences_json = "object" -> ImageRecipePreferences(form.data @@ PreferenceDefaults)
      [] OTHER -> NoPayload

\* the keys of script_instructions, openai_client.py lines 35-45
script_instructions ==
    {<<"g","u","j","a","r","a","t","i">>, s_hindi, <<"m","a","r","a","t","h","i">>,
     <<"b","e","n","g","a","l","i">>, s_tamil, <<"t","e","l","u","g","u">>,
     <<"k","a","n","n","a","d","a">>, <<"m","a","l","a","y","a","l","a","m">>,
     <<"p","u","n","j","a","b","i">>}
\* the native-script directive the table holds for a language
ScriptDirective(language) == [script |-> language]
\* a directive that is the name of the language itself
NameDirective(language) == [name |-> language]

\* openai_client.py lines 30-50
_language_instruction(language) ==
    LET target == Lower(Strip(PyOr(language, JStr(s_english)).v))
    IN IF target = <<>> THEN NameDirective(s_english)
       ELSE IF target \in script_instructions THEN ScriptDirective(target)
       ELSE NameDirective(target)

\* ", ".join(payload.ingredients), openai_client.py line 83
RECURSIVE JoinComma(_)
JoinComma(items) ==
    IF items = <<>> THEN <<>>
    ELSE IF Len(items) = 1 THEN Head(items)
    ELSE Head(items) \o <<",", " ">> \o JoinComma(Tail(items))

\* variations, openai_client.py lines 105-110 and 251-256
VariationsLong ==
    <<"IMPORTANT: Generate a COMPLETELY DIFFERENT recipe variation. Use different cooking methods, spices, or preparation style. Make it unique from any previous recipe.",
      "IMPORTANT: Create a DISTINCT recipe variation. Try different flavor profiles, cooking techniques, or ingredient combinations. Ensure it's different from previous suggestions.",
      "IMPORTANT: Generate a UNIQUE recipe variation. Experiment with alternative spices, different cooking times, or varied preparation methods. Make it stand out as different.",
      "IMPORTANT: Provide a FRESH recipe variation. Use different spice combinations, alternative cooking methods, or unique presentation. Ensure variety and uniqueness.">>
\* variations, openai_client.py lines 361-365
VariationsShort ==
    <<"IMPORTANT: Generate a COMPLETELY DIFFERENT recipe variation. Use different cooking methods, spices, or preparation style.",
      "IMPORTANT: Create a DISTINCT recipe variation. Try different flavor profiles, cooking techniques, or ingredient combinations.",
      "IMPORTANT: Generate a UNIQUE recipe variation. Experiment with alternative spices, different cooking times, or varied preparation methods.">>
VariationPool(m) == IF m = "prompt" THEN VariationsShort ELSE VariationsLong

\* the pieces of the prompt that depend on the payload: openai_client.py
\* lines 83-84, 87-88, 99-100, 103-111 (text), 234-235, 245-246, 249-257
\* (image), 352-356, 359-366 (prompt); pick is what random.choice draws
BuildPromptPieces(m, p, pick) ==
    [ingredients |-> IF m = "text" THEN JoinComma(p[k_ingredients]) ELSE <<>>,
     servings |-> IF Truthy(p[k_servings]) THEN p[k_servings] ELSE JNull,
     language |-> _language_instruction(p[k_language]),
     variation |-> IF Truthy(p[k_variation]) THEN <<VariationPool(m)[pick]>> ELSE <<>>]

\* a temperature that does not look at the variation flag
TemperatureFixed(p) == "0.7"
\* openai_client.py lines 277-279, 325-327, 392-394
Temperature(p) == IF Truthy(p[k_variation]) THEN "0.9" ELSE "0.7"

LanguageInputs ==
    {JNull, JStr(<<>>), JStr(<<" ">>), JStr(s_hindi), JStr(<<" ","H","I","N","D","I"," ">>),
     JStr(<<"T","a","m","i","l">>), JStr(s_french), JStr(<<"F","r","e","n","c","h"," ">>)}
ServingsInputs == {JInt(0), JInt(3)}
IngredientInputs ==
    {<<>>, <<<<>>>>, <<<<" ">>>>, <<<<>>, <<" ">>>>, <<s_aloo>>, <<<<" ">> \o s_aloo \o <<" ">>>>,
     <<s_aloo, <<" ">>, s_matar>>, <<s_matar, s_aloo>>}
PromptInputs == {<<"a","b">>, s_Dal}

\* the optional fields a body can carry, each one given or left out
VariationInputs == {JBool(TRUE), JBool(FALSE), JNull}
OptionalBodies ==
    {l @@ n @@ v : l \in {EmptyDict} \cup {(k_language :> x) : x \in LanguageInputs},
                   n \in {EmptyDict} \cup {(k_servings :> x) : x \in ServingsInputs},
                   v \in {EmptyDict} \cup {(k_variation :> x) : x \in VariationInputs}}

TextBodies == {(k_ingredients :> JList(i)) @@ o : i \in IngredientInputs, o \in OptionalBodies}
PromptBodies == {(k_prompt :> t) @@ o : t \in PromptInputs, o \in OptionalBodies}
ImageForms ==
    {[preferences_json |-> "absent", data |-> EmptyDict],
     [preferences_json |-> "not an object", data |-> EmptyDict]}
        \cup {[preferences_json |-> "object", data |-> o] : o \in OptionalBodies}

InitForm ==
    /\ PipelineIdle
    /\ NormIdle
    /\ StoreIdle
    /\ AuthIdle
    /\ fstage = "submitted"
    /\ \/ fmode = "text" /\ submitted \in TextBodies
       \/ fmode = "prompt" /\ submitted \in PromptBodies
       \/ fmode = "image" /\ submitted \in ImageForms
    /\ payload = NoPayload
    /\ prompt = NoPrompt
    /\ generation_config = NoConfig

\* the payload parameter of recipe_from_text, main.py line 271: the request
\* is answered 422 before the handler runs when the model cannot be built
ReceiveText ==
    /\ fstage = "submitted"
    /\ fmode = "text"
    /\ payload' = RecipeFromTextRequest(submitted)
    /\ fstage' = IF payload'.ok THEN "validated" ELSE "rejected"
    /\ UNCHANGED <<fmode, submitted, prompt, generation_config>>
    /\ UNCHANGED <<pipelineVars, normVars, storeVars, authVars>>

\* the payload parameter of recipe_from_prompt, main.py line 256
ReceivePrompt ==
    /\ fstage = "submitted"
    /\ fmode = "prompt"
    /\ payload' = RecipeFromPromptRequest(submitted)
    /\ fstage' = IF payload'.ok THEN "validated" ELSE "rejected"
    /\ UNCHANGED <<fmode, submitted, prompt, generation_config>>
    /\ UNCHANGED <<pipelineVars, normVars, storeVars, authVars>>

\* recipe_from_image up to the end of its first try block, main.py lines
\* 293-322
ReceiveImage ==
    /\ fstage = "submitted"
    /\ fmode = "image"
    /\ payload' = ImagePreferences(submitted)
    /\ fstage' = IF payload'.ok THEN "validated" ELSE "rejected"
    /\ UNCHANGED <<fmode, submitted, prompt, generation_config>>
    /\ UNCHANGED <<pipelineVars, normVars, storeVars, authVars>>

\* _build_text_prompt, _build_image_prompt, _build_prompt_recipe_prompt
\* called by the orchestrator, openai_client.py lines 267, 302, 383
BuildPrompt ==
    /\ fstage = "validated"
    /\ \E pick \in 1..Len(VariationPool(fmode)) :
          prompt' = BuildPromptPieces(fmode, payload.v, pick)
    /\ fstage' = "prompted"
    /\ UNCHANGED <<fmode, submitted, payload, generation_config>>
    /\ UNCHANGED <<pipelineVars, normVars, storeVars, authVars>>

\* generation_config of the orchestrator, openai_client.py lines 276-280,
\* 323-328, 391-395
ConfigureModel ==
    /\ fstage = "prompted"
    /\ generation_config' = [temperature |-> Temperature(payload.v)]
    /\ fstage' = "configured"
    /\ UNCHANGED <<fmode, submitted, payload, prompt>>
    /\ UNCHANGED <<pipelineVars, normVars, storeVars, authVars>>

NextForm == ReceiveText \/ ReceivePrompt \/ ReceiveImage \/ BuildPrompt \/ ConfigureModel

SpecForm == InitForm /\ [][NextForm]_vars

(***************************************************************************)
(* The saved recipes.  A row of the table is its id, its user_id and its   *)
(* recipe_title; recipe_data and created_at take no part in a lookup.  The *)
(* ids come from AUTOINCREMENT, so an id is never handed out twice.        *)
(***************************************************************************)
NumUsers == 2
MaxSaves == 3
Users == 1..NumUsers
RecipeIds == 1..MaxSaves
RecipeTitles == {s_Dal}

SavedRow(id, user_id, recipe_title) ==
    [id |-> id, user_id |-> user_id, recipe_title |-> recipe_title]
\* the columns a SELECT of lines 121 and 131 returns: user_id is not one
SelectedColumns(row) == [id |-> row.id, recipe_title |-> row.recipe_title]

\* database.py lines 100-114
DbSaveRecipe(rows, seq, user_id, recipe_title) ==
    [rows |-> rows \cup {SavedRow(seq + 1, user_id, recipe_title)}, lastrowid |-> seq + 1]

\* database.py lines 116-124
DbGetUserRecipes(rows, user_id) ==
    {SelectedColumns(row) : row \in {r \in rows : r.user_id = user_id}}

\* a lookup by id alone
DbGetRecipeAnyOwner(rows, recipe_id, user_id) ==
    {SelectedColumns(row) : row \in {r \in rows : r.id = recipe_id}}
\* database.py lines 126-135: the rows fetchone() can return, none or one
DbGetRecipe(rows, recipe_id, user_id) ==
    {SelectedColumns(row) : row \in {r \in rows : r.id = recipe_id /\ r.user_id = user_id}}

\* database.py lines 137-144
DbDeleteRecipe(rows, recipe_id, user_id) ==
    LET hit == {r \in rows : r.id = recipe_id /\ r.user_id = user_id}
    IN [rows |-> rows \ hit, deleted |-> Cardinality(hit) > 0]

Reply(op, user_id, recipe_id, status, rows) ==
    [op |-> op, user_id |-> user_id, recipe_id |-> recipe_id, status |-> status, rows |-> rows]

InitStore ==
    /\ PipelineIdle
    /\ NormIdle
    /\ FormIdle
    /\ StoreIdle
    /\ AuthIdle

\* save_recipe, main.py lines 347-358
SaveRecipe(user_id, recipe_title) ==
    /\ sqlite_sequence < MaxSaves
    /\ LET saved == DbSaveRecipe(saved_recipes, sqlite_sequence, user_id, recipe_title) IN
          /\ saved_recipes' = saved.rows
          /\ sqlite_sequence' = saved.lastrowid
          /\ reply' = Reply("save", user_id, saved.lastrowid, 200, {})
    /\ saved_by' = Append(saved_by, user_id)
    /\ UNCHANGED <<pipelineVars, normVars, formVars, authVars>>

\* get_my_recipes, main.py lines 361-380
GetMyRecipes(user_id) ==
    /\ reply' = Reply("list", user_id, 0, 200, DbGetUserRecipes(saved_recipes, user_id))
    /\ UNCHANGED <<saved_recipes, sqlite_sequence, saved_by>>
    /\ UNCHANGED <<pipelineVars, normVars, formVars, authVars>>

\* get_recipe, main.py lines 383-403
GetRecipe(user_id, recipe_id) ==
    /\ LET recipe == DbGetRecipe(saved_recipes, recipe_id, user_id) IN
          reply' = IF recipe = {} THEN Reply("get", user_id, recipe_id, 404, {})
                   ELSE Reply("get", user_id, recipe_id, 200, recipe)
    /\ UNCHANGED <<saved_recipes, sqlite_sequence, saved_by>>
    /\ UNCHANGED <<pipelineVars, normVars, formVars, authVars>>

\* delete_recipe, main.py lines 406-419
DeleteRecipe(user_id, recipe_id) ==
    /\ LET done == DbDeleteRecipe(saved_recipes, recipe_id, user_id) IN
          /\ saved_recipes' = done.rows
          /\ reply' = Reply("delete", user_id, recipe_id, IF done.deleted THEN 200 ELSE 404, {})
    /\ UNCHANGED <<sqlite_sequence, saved_by>>
    /\ UNCHANGED <<pipelineVars, normVars, formVars, authVars>>

NextStore ==
    \/ \E u \in Users : \E t \in RecipeTitles : SaveRecipe(u, t)
    \/ \E u \in Users : GetMyRecipes(u)
    \/ \E u \in Users : \E id \in RecipeIds : GetRecipe(u, id)
    \/ \E u \in Users : \E id \in RecipeIds : DeleteRecipe(u, id)

SpecStore == InitStore /\ [][NextStore]_vars

(***************************************************************************)
(* Accounts and sessions.  A row of users is its id, its email and its     *)
(* password (hash_password is a function of the password alone); a row of  *)
(* sessions is its user_id, its session_token and its expires_at.  A token *)
(* drawn by secrets.token_urlsafe(32) is one never drawn before.  Time is  *)
(* counted in ticks of the server clock, a session living SessionLifetime  *)
(* of them.                                                                *)
(***************************************************************************)
MaxSessions == 2
MaxClock == 2
SessionLifetime == 2
Emails == {"a@x.in", "b@x.in"}
\* the password the accounts are created with, and the passwords a login
\* tries: the right one and a wrong one
ChosenPasswords == {"secret1"}
Passwords == ChosenPasswords \cup {"secret2"}
\* a string no login draws: a token is 32 random bytes (database.py line 74),
\* so what a client presents is no token, a token some login has already
\* drawn, or a string that is never drawn
ForgedToken == MaxSessions + 1
PresentedTokens == (0..tokens_issued) \cup {ForgedToken}
\* one generation endpoint and one saved-recipe endpoint: all seven of them
\* (main.py lines 258, 273, 292, 348, 362, 384, 407) declare the same
\* Depends(require_auth)
ProtectedEndpoints == {"recipe_from_text", "save_recipe"}

NoUser == 0
UserRow(id, email, password) == [id |-> id, email |-> email, password |-> password]
SessionRow(user_id, session_token, expires_at) ==
    [user_id |-> user_id, session_token |-> session_token, expires_at |-> expires_at]

\* database.py lines 50-59: email is UNIQUE, the id is the next of the
\* AUTOINCREMENT sequence
DbCreateUser(rows, email, password) ==
    IF \E u \in rows : u.email = email THEN [ok |-> FALSE, rows |-> rows]
    ELSE [ok |-> TRUE, rows |-> rows \cup {UserRow(Cardinality(rows) + 1, email, password)}]

\* database.py lines 61-70: the id of the user, NoUser for None
DbVerifyUser(rows, email, password) ==
    LET hit == {u \in rows : u.email = email /\ u.password = password}
    IN IF hit = {} THEN NoUser ELSE (CHOOSE u \in hit : TRUE).id

\* database.py lines 72-81
DbCreateSession(rows, user_id, session_token, clock) ==
    rows \cup {SessionRow(user_id, session_token, clock + SessionLifetime)}

\* a lookup that does not look at expires_at
DbGetUserBySessionAnyTime(urows, srows, session_token, clock) ==
    LET hit == {u \in urows : \E r \in srows :
                   r.session_token = session_token /\ r.user_id = u.id}
    IN IF hit = {} THEN NoUser ELSE (CHOOSE u \in hit : TRUE).id
\* database.py lines 83-94
DbGetUserBySession(urows, srows, session_token, clock) ==
    LET hit == {u \in urows : \E r \in srows :
                   /\ r.session_token = session_token
                   /\ r.user_id = u.id
                   /\ r.expires_at > clock}
    IN IF hit = {} THEN NoUser ELSE (CHOOSE u \in hit : TRUE).id

\* database.py lines 96-98
DbDeleteSession(rows, session_token) == {r \in rows : r.session_token # session_token}

\* auth.py lines 5-8
get_current_user(urows, srows, session_token, clock) ==
    IF session_token = NoToken THEN NoUser
    ELSE DbGetUserBySession(urows, srows, session_token, clock)

AuthReply(op, token, status, current_user, handled) ==
    [op |-> op, token |-> token, status |-> status, current_user |-> current_user,
     handled |-> handled]

InitAuth ==
    /\ PipelineIdle
    /\ NormIdle
    /\ FormIdle
    /\ StoreIdle
    /\ AuthIdle

\* signup, main.py lines 229-237
Signup(email, password) ==
    /\ LET created == DbCreateUser(users, email, password) IN
          /\ users' = created.rows
          /\ auth_reply' = IF created.ok
                           THEN AuthReply("signup", NoToken, 200, NoUser, TRUE)
                           ELSE AuthReply("signup", NoToken, 400, NoUser, TRUE)
    /\ UNCHANGED <<sessions, tokens_issued, now, logged_in_as, issued_at, logged_out>>
    /\ UNCHANGED <<pipelineVars, normVars, formVars, storeVars>>

\* login, main.py lines 240-243, and login_user, auth.py lines 16-31
Login(email, password) ==
    /\ tokens_issued < MaxSessions
    /\ LET user == DbVerifyUser(users, email, password)
           session_token == tokens_issued + 1
       IN IF user = NoUser
          THEN /\ auth_reply' = AuthReply("login", NoToken, 401, NoUser, TRUE)
               /\ UNCHANGED <<sessions, tokens_issued, logged_in_as, issued_at>>
          ELSE /\ sessions' = DbCreateSession(sessions, user, session_token, now)
               /\ tokens_issued' = session_token
               /\ logged_in_as' = Append(logged_in_as, user)
               /\ issued_at' = Append(issued_at, now)
               /\ auth_reply' = AuthReply("login", session_token, 200, user, TRUE)
    /\ UNCHANGED <<users, now, logged_out>>
    /\ UNCHANGED <<pipelineVars, normVars, formVars, storeVars>>

\* logout, main.py lines 246-249, and logout_user, auth.py lines 32-35
Logout(session_token) ==
    /\ sessions' = IF session_token # NoToken THEN DbDeleteSession(sessions, session_token)
                   ELSE sessions
    /\ logged_out' = IF session_token \in 1..tokens_issued
                     THEN logged_out \cup {session_token}
                     ELSE logged_out
    /\ auth_reply' = AuthReply("logout", NoToken, 302, NoUser, TRUE)
    /\ UNCHANGED <<users, tokens_issued, now, logged_in_as, issued_at>>
    /\ UNCHANGED <<pipelineVars, normVars, formVars, storeVars>>

\* a request to an endpoint that has Depends(require_auth), auth.py lines
\* 10-14: the handler, with its model invocation or its statements over
\* saved_recipes, runs only when require_auth returns a user
ProtectedRequest(endpoint, session_token) ==
    /\ LET user == get_current_user(users, sessions, session_token, now) IN
          auth_reply' = IF user = NoUser
                        THEN AuthReply(endpoint, session_token, 401, NoUser, FALSE)
                        ELSE AuthReply(endpoint, session_token, 200, user, TRUE)
    /\ UNCHANGED <<users, sessions, tokens_issued, now, logged_in_as, issued_at, logged_out>>
    /\ UNCHANGED <<pipelineVars, normVars, formVars, storeVars>>

\* time passes
Tick ==
    /\ now < MaxClock
    /\ now' = now + 1
    /\ UNCHANGED <<users, sessions, tokens_issued, auth_reply, logged_in_as, issued_at,
                   logged_out>>
    /\ UNCHANGED <<pipelineVars, normVars, formVars, storeVars>>

NextAuth ==
    \/ \E e \in Emails : \E p \in ChosenPasswords : Signup(e, p)
    \/ \E e \in Emails : \E p \in Passwords : Login(e, p)
    \/ \E t \in PresentedTokens : Logout(t)
    \/ \E ep \in ProtectedEndpoints : \E t \in PresentedTokens : ProtectedRequest(ep, t)
    \/ Tick

SpecAuth == InitAuth /\ [][NextAuth]_vars

(***************************************************************************)
(* Properties of _call_with_retries, checked under SpecRetry.  In a frame  *)
(* called on its own, outcomes[r] holds one entry per invocation of the    *)
(* callable ("marker", "plain" or "ok") and sleeps[r] the delays slept.    *)
(***************************************************************************)
RECURSIVE Pow2(_)
Pow2(n) == IF n = 0 THEN 1 ELSE 2 * Pow2(n - 1)

AllMarkers(seq) == \A i \in DOMAIN seq : seq[i] = "marker"
Finished(r) == rpc[r] \in {"returned", "raised"}

\* C1: a failure whose message carries a transient marker, in any letter
\* case, is retried; the callable is invoked at most max_attempts times, at
\* most max_attempts-1 sleeps are made, and none follows the final attempt.
RetryIsBounded ==
    \A r \in Req : rpc[r] # "idle" =>
        /\ Len(outcomes[r]) <= max_attempts[r]
        /\ Len(sleeps[r]) <= max_attempts[r] - 1
        /\ Len(sleeps[r]) <= Len(outcomes[r])
        /\ Finished(r) => Len(sleeps[r]) = Len(outcomes[r]) - 1
        \* a marker failure short of max_attempts is followed by a sleep and
        \* then by another attempt, never by the end of the call
        /\ \A i \in DOMAIN outcomes[r] :
              outcomes[r][i] = "marker" /\ i < max_attempts[r] =>
                  /\ Len(sleeps[r]) >= i
                  /\ ~(Finished(r) /\ i = Len(outcomes[r]))
        /\ rpc[r] = "try" => Len(sleeps[r]) = Len(outcomes[r])

\* four attempts, the last failing with "QUOTA", three sleeps
RetryIsBoundedWitness ==
    /\ rpc[1] = "raised"
    /\ max_attempts[1] = MaxAttemptsBound
    /\ Len(outcomes[1]) = MaxAttemptsBound
    /\ AllMarkers(outcomes[1])
    /\ lastCall[1] = Raised(MsgQuota)
    /\ Len(sleeps[1]) = MaxAttemptsBound - 1

\* C2: when the first k attempts fail transiently and the next succeeds,
\* the success result is returned and the sleeps are initial_delay,
\* 2*initial_delay, ..., 2^(k-1)*initial_delay in that order.
BackoffDoubles ==
    \A r \in Req : rpc[r] = "returned" =>
        LET k == Len(outcomes[r]) - 1 IN
        /\ AllMarkers(SubSeq(outcomes[r], 1, k))
        /\ outcomes[r][k + 1] = "ok"
        /\ result[r].kind = "return"
        /\ result[r] = lastCall[r]
        /\ sleeps[r] = [i \in 1..k |-> Pow2(i - 1) * initial_delay[r]]

\* the defaults, three transient failures, then success: sleeps 1, 2, 4
BackoffDoublesWitness ==
    /\ rpc[1] = "returned"
    /\ max_attempts[1] = DefaultMaxAttempts
    /\ initial_delay[1] = DefaultInitialDelay
    /\ outcomes[1] = <<"marker", "marker", "marker", "ok">>
    /\ sleeps[1] = <<1, 2, 4>>
    /\ result[1] = Returned(TextGood)

\* C3: a failure whose message carries no marker is raised to the caller on
\* the attempt where it occurs, whichever attempt that is: no sleep and no
\* invocation of the callable follows it.
PlainFailureRaisedAtOnce ==
    \A r \in Req : \A i \in DOMAIN outcomes[r] :
        outcomes[r][i] = "plain" =>
            /\ i = Len(outcomes[r])
            /\ rpc[r] = "raised"
            /\ result[r] = lastCall[r]
            /\ result[r].kind = "raise"
            /\ Len(sleeps[r]) = i - 1

\* a plain failure on the third attempt
PlainFailureRaisedAtOnceWitness ==
    /\ outcomes[1] = <<"marker", "marker", "plain">>
    /\ max_attempts[1] = MaxAttemptsBound
    /\ rpc[1] = "raised"
    /\ result[1] = Raised(MsgNearMiss)
    /\ sleeps[1] = <<initial_delay[1], 2 * initial_delay[1]>>

\* C4: when all max_attempts attempts fail transiently, the failure raised
\* to the caller is the one of the last attempt, not an earlier one and not
\* the placeholder "Call failed after retries".
ExhaustionRaisesLastFailure ==
    \A r \in Req :
        Finished(r) /\ AllMarkers(outcomes[r]) =>
            /\ Len(outcomes[r]) = max_attempts[r]
            /\ rpc[r] = "raised"
            /\ result[r] = lastCall[r]
            /\ result[r].kind = "raise"
            /\ result[r].exc # PlaceholderExc

\* three attempts all failing transiently, the last with "Timeout"
ExhaustionRaisesLastFailureWitness ==
    /\ rpc[1] = "raised"
    /\ max_attempts[1] = 3
    /\ outcomes[1] = <<"marker", "marker", "marker">>
    /\ result[1] = Raised(MsgTimeout)

(***************************************************************************)
(* Properties of the generation endpoints, checked under Spec.             *)
(***************************************************************************)
Done(r) == pc[r] = "done"
\* what a caller can tell failures apart by: the status and the fixed text
\* the detail starts with
Category(resp) == <<resp.status, IF resp.detail = <<>> THEN Lit("") ELSE Head(resp.detail)>>
NotDecode(x) == x # "decode"
\* the stages of a call, the decoding of the image left out
CoreStages(r) == SelectSeq(stages[r], NotDecode)
AllStages == <<"build", "invoke", "normalize", "validate">>
IsPrefix(a, b) == Len(a) <= Len(b) /\ a = SubSeq(b, 1, Len(a))
\* the number of stages a call that failed for this cause went through
StagesBefore(why) ==
    CASE why = "config" -> 0
      [] why \in {"import", "image_decode"} -> 1
      [] why = "provider" -> 2
      [] why \in {"parse", "coerce"} -> 3
      [] why = "validation" -> 4
      [] OTHER -> 0

\* C5: while one request is in its retry backoff, another request handled
\* by the same server process can still take its next step.
BackoffLeavesOthersRunnable ==
    \A r \in Req : \A s \in Req :
        r # s /\ rpc[r] = "sleep" /\ pc[s] \in {"new", "reading"} =>
            ENABLED (StartText(s) \/ StartImage(s) \/ ReadImage(s))

\* C6: in each of the three modes a call goes through prompt building,
\* model invocation, normalization and validation in that order; a Recipe
\* is returned only by a call that completed validation, and a call that
\* fails in one stage performs no later stage.
StagesInOrder ==
    \A r \in Req :
        /\ IsPrefix(CoreStages(r), AllStages)
        /\ response[r].status = 200 => CoreStages(r) = AllStages /\ cause[r] = "none"
        /\ Done(r) /\ response[r].status # 200 =>
              /\ cause[r] # "none"
              /\ Len(CoreStages(r)) = StagesBefore(cause[r])
        /\ "decode" \in {stages[r][i] : i \in DOMAIN stages[r]} =>
              /\ mode[r] = "image"
              /\ Len(stages[r]) >= 2
              /\ stages[r][1] = "build"
              /\ stages[r][2] = "decode"

\* an image request answered with a Recipe, and a text or prompt request
\* that stopped at normalization
StagesInOrderWitness ==
    \E r \in Req : \E s \in Req :
        /\ mode[r] = "image"
        /\ response[r].status = 200
        /\ stages[r] = <<"build", "decode", "invoke", "normalize", "validate">>
        /\ mode[s] \in {"text", "prompt"}
        /\ cause[s] = "parse"
        /\ stages[s] = <<"build", "invoke", "normalize">>

\* C7: a provider failure and a model output holding no JSON object are
\* reported as a failure of the generation pipeline (5xx), in a category
\* other than the one of invalid client input (4xx).
PipelineFailureIsServerError ==
    \A r \in Req :
        Done(r) /\ cause[r] \in {"provider", "parse"} =>
            /\ response[r].status >= 500
            /\ \A s \in Req :
                  cause[s] \in {"preferences", "size", "content_type", "image_decode"} =>
                      Category(response[r]) # Category(response[s])

\* C8: an image that cannot be decoded fails with no model invocation, in a
\* category other than the one of a provider failure.
DecodeFailureIsDistinct ==
    \A r \in Req :
        cause[r] = "image_decode" =>
            /\ ~invoked[r]
            /\ \A s \in Req :
                  cause[s] = "provider" => Category(response[r]) # Category(response[s])

\* C9: a validation failure is reported with the offending fields, in a
\* category other than the one of a model text that is not JSON, and the
\* rejected value is never answered with a Recipe.
ValidationFailureIsDistinct ==
    \A r \in Req :
        cause[r] = "validation" =>
            /\ response[r].status # 200
            /\ \E i \in DOMAIN response[r].detail :
                  /\ "fields" \in DOMAIN response[r].detail[i]
                  /\ response[r].detail[i].fields # {}
            /\ \A s \in Req :
                  cause[s] = "parse" => Category(response[r]) # Category(response[s])

\* C10: an upload longer than 25*1024*1024 bytes is rejected with no model
\* invocation for the request; one of exactly 25*1024*1024 bytes is not
\* rejected for its size.
OversizeRejectedBeforeModel ==
    \A r \in Req :
        /\ size[r] > MaxImageBytes =>
              /\ ~invoked[r]
              /\ rpc[r] = "idle"
              /\ Done(r)
              /\ response[r].status = 413
              /\ stages[r] = <<>>
        /\ size[r] = MaxImageBytes => response[r].status # 413 /\ cause[r] # "size"

\* one upload of 25 MB + 1 rejected, another of exactly 25 MB answered with
\* a Recipe
OversizeRejectedBeforeModelWitness ==
    \E r \in Req : \E s \in Req :
        /\ size[r] = MaxImageBytes + 1
        /\ response[r].status = 413
        /\ size[s] = MaxImageBytes
        /\ invoked[s]
        /\ response[s].status = 200

\* C11: in every mode, when the model credential is missing the call fails
\* with a configuration error before the prompt is built, before the image
\* is decoded and before any model invocation.
MissingKeyFailsFirst ==
    \A r \in Req :
        /\ cause[r] = "config" =>
              /\ stages[r] = <<>>
              /\ ~invoked[r]
              /\ rpc[r] = "idle"
              /\ response[r] =
                    HttpResponse(500,
                        <<Lit(IF mode[r] = "image" THEN "Image processing failed: "
                              ELSE "Recipe generation failed: "),
                          Lit("Missing GEMINI_API_KEY in environment")>>)
        /\ ~environ.api_key =>
              /\ stages[r] = <<>>
              /\ ~invoked[r]
              /\ rpc[r] = "idle"
              /\ Done(r) => cause[r] \in {"config", "preferences", "size", "content_type"}

\* an image request and a text or prompt request, both stopped by the
\* missing credential
MissingKeyFailsFirstWitness ==
    \E r \in Req : \E s \in Req :
        /\ mode[r] = "image"
        /\ size[r] = MaxImageBytes
        /\ cause[r] = "config"
        /\ mode[s] \in {"text", "prompt"}
        /\ cause[s] = "config"

(***************************************************************************)
(* Properties of the normalizer and the validator, checked under           *)
(* SpecNormalize.                                                          *)
(***************************************************************************)
EmptyStr(v) == v.t = "str" /\ v.v = <<>>
BelowInt(v, lo) == v.t = "int" /\ v.v < lo
EntryHas(list, k, bad(_)) ==
    /\ list.t = "list"
    /\ \E i \in 1..Len(list.v) : list.v[i].t = "dict" /\ bad(Get(list.v[i].v, k))
IsEmptyList(v) == v.t = "list" /\ v.v = <<>>
Negative(v) == BelowInt(v, 0)
BelowOne(v) == BelowInt(v, 1)
\* the violations of the canonical shape the validator is to reject
ViolatesConstraint(d) ==
    \/ EmptyStr(Get(d, k_title))
    \/ EntryHas(Get(d, k_ingredients), k_name, EmptyStr)
    \/ EntryHas(Get(d, k_steps), k_instruction, EmptyStr)
    \/ IsEmptyList(Get(d, k_ingredients))
    \/ IsEmptyList(Get(d, k_steps))
    \/ BelowOne(Get(d, k_servings))
    \/ EntryHas(Get(d, k_steps), k_number, BelowOne)
    \/ Negative(Get(d, k_total_time_minutes))
    \/ /\ Get(d, k_nutrition).t = "dict"
       /\ \E k \in DOMAIN Get(d, k_nutrition).v : Negative(Get(d, k_nutrition).v[k])

\* C12: the validator rejects every dict with an empty title, an empty
\* ingredient name, an empty step instruction, an empty ingredients or steps
\* list, servings < 1, a step number < 1, or a negative total_time_minutes
\* or nutrition value.
ValidatorRejectsViolations ==
    nstage \in {"accepted", "rejected"} /\ ViolatesConstraint(ndata.v) => nstage = "rejected"

OptionalStr(v) == v.t \in {"null", "str"}
NonEmptyStr(v) == v.t = "str" /\ v.v # <<>>
IntAtLeast(v, lo) == v.t = "int" /\ v.v >= lo
CanonicalIngredient(v) ==
    /\ v.t = "dict"
    /\ DOMAIN v.v = {k_name, k_quantity}
    /\ NonEmptyStr(v.v[k_name])
    /\ OptionalStr(v.v[k_quantity])
CanonicalStep(v) ==
    /\ v.t = "dict"
    /\ DOMAIN v.v = {k_number, k_instruction}
    /\ IntAtLeast(v.v[k_number], 1)
    /\ NonEmptyStr(v.v[k_instruction])
\* a dict that matches the Recipe shape
IsCanonical(data) ==
    /\ data.t = "dict"
    /\ DOMAIN data.v = {k_title, k_cuisine, k_servings, k_total_time_minutes,
                        k_ingredients, k_steps, k_nutrition, k_tips}
    /\ NonEmptyStr(data.v[k_title])
    /\ OptionalStr(data.v[k_cuisine])
    /\ IntAtLeast(data.v[k_servings], 1)
    /\ data.v[k_total_time_minutes].t = "null" \/ IntAtLeast(data.v[k_total_time_minutes], 0)
    /\ data.v[k_ingredients].t = "list" /\ data.v[k_ingredients].v # <<>>
    /\ \A i \in 1..Len(data.v[k_ingredients].v) : CanonicalIngredient(data.v[k_ingredients].v[i])
    /\ data.v[k_steps].t = "list" /\ data.v[k_steps].v # <<>>
    /\ \A i \in 1..Len(data.v[k_steps].v) : CanonicalStep(data.v[k_steps].v[i])
    /\ \/ data.v[k_nutrition].t = "null"
       \/ /\ data.v[k_nutrition].t = "dict"
          /\ DOMAIN data.v[k_nutrition].v \subseteq NutritionKeys
          /\ \A k \in DOMAIN data.v[k_nutrition].v : IntAtLeast(data.v[k_nutrition].v[k], 0)
    /\ \/ data.v[k_tips].t = "null"
       \/ /\ data.v[k_tips].t = "list"
          /\ \A i \in 1..Len(data.v[k_tips].v) : data.v[k_tips].v[i].t = "str"

\* C13: _coerce_recipe_dict is idempotent on canonical dicts, a non-empty
\* cuisine included: coercing one returns a dict equal to it, and coercing
\* the result again returns the same dict.
CoerceIdempotentOnCanonical ==
    IsCanonical(ndata) =>
        /\ nstage # "coerce error"
        /\ nrecipe # JNull => nrecipe = ndata
        /\ nagain # JNull => nagain = nrecipe

\* C14: whenever a JSON object is parsed out of the raw model text,
\* normalization returns a recipe dict without raising, whatever the types
\* and values of the object's fields.
NormalizeNeverRaisesOnObject ==
    ntext # <<>> /\ ndata.t = "dict" => nstage # "coerce error"

FirstPresent(d, k1, k2) ==
    IF k1 \in DOMAIN d /\ Truthy(d[k1]) THEN d[k1]
    ELSE IF k2 \in DOMAIN d /\ Truthy(d[k2]) THEN d[k2]
    ELSE JNull
OnlyDotsAndBlanks(s) == \A i \in 1..Len(s) : s[i] \in {".", " "}
\* the source has no ingredients: the keys are absent or empty, the value is
\* no list, or every entry is an empty bare value
NoSourceIngredients(d) ==
    LET ings == FirstPresent(d, k_ingredients, k_ingredient_list)
    IN \/ ings.t # "list"
       \/ \A i \in 1..Len(ings.v) : ings.v[i] = JStr(<<>>)
\* the source has no steps: the keys are absent or empty, the value is neither
\* a list nor a text with a sentence in it, or every entry is an empty text
NoSourceSteps(d) ==
    LET steps == FirstPresent(d, k_steps, k_instructions)
    IN \/ steps.t \notin {"list", "str"}
       \/ steps.t = "str" /\ OnlyDotsAndBlanks(steps.v)
       \/ steps.t = "list" /\ \A i \in 1..Len(steps.v) : steps.v[i] = JStr(<<>>)
CoerceReturned == ndata.t = "dict" /\ nrecipe # JNull

\* C15: whenever _coerce_recipe_dict returns, the result's ingredients and
\* steps are both non-empty; a source with no ingredients gets exactly the
\* fallback ingredient salt / to taste, and a source with no steps gets
\* exactly the fallback step numbered 1.
FallbacksFillEmptyLists ==
    CoerceReturned =>
        /\ nrecipe.v[k_ingredients].v # <<>>
        /\ nrecipe.v[k_steps].v # <<>>
        /\ NoSourceIngredients(ndata.v) => nrecipe.v[k_ingredients].v = <<FallbackIngredient>>
        /\ NoSourceSteps(ndata.v) => nrecipe.v[k_steps].v = <<FallbackStep>>
FallbacksFillEmptyListsWitness ==
    /\ CoerceReturned
    /\ NoSourceIngredients(ndata.v)
    /\ NoSourceSteps(ndata.v)
    /\ nrecipe.v[k_ingredients].v = <<FallbackIngredient>>
    /\ nrecipe.v[k_steps].v = <<FallbackStep>>

\* C16: for valid JSON wrapped in a fenced code block, whatever the fence
\* form, _extract_and_normalize_json returns the same dict as it returns for
\* the unwrapped JSON.
FencedSameAsUnwrapped ==
    nstage # "text" /\ IsFenced(ntext) /\ _extract_and_normalize_json(nbody).ok =>
        ndata = _extract_and_normalize_json(nbody).v

\* the names the source entries carry: a dictionary entry's non-empty name or
\* ingredient value, a bare entry's own text
DerivableNames(items) ==
    {items[i].v[k] : <<i, k>> \in
        {p \in (1..Len(items)) \X {k_name, k_ingredient} :
            /\ items[p[1]].t = "dict"
            /\ p[2] \in DOMAIN items[p[1]].v
            /\ Truthy(items[p[1]].v[p[2]])}}
    \cup {JStr(PyStr(items[i])) : i \in {j \in 1..Len(items) : items[j].t # "dict"}}
SourceIngredientList(d) ==
    LET ings == FirstPresent(d, k_ingredients, k_ingredient_list)
    IN IF ings.t = "list" THEN ings.v ELSE <<>>

\* C20: an ingredient entry from which no name can be derived is dropped, so
\* every output ingredient other than the fallback carries a name that is
\* one of the source values.
NamelessIngredientsDropped ==
    CoerceReturned =>
        \/ nrecipe.v[k_ingredients].v = <<FallbackIngredient>>
        \/ \A i \in 1..Len(nrecipe.v[k_ingredients].v) :
              nrecipe.v[k_ingredients].v[i].v[k_name]
                  \in DerivableNames(SourceIngredientList(ndata.v))

\* the language a request asks for: absent when the body leaves it out
RequestedLanguage ==
    IF fmode = "image" THEN Get(submitted.data, k_language) ELSE Get(submitted, k_language)
\* the directive the entry modes owe a requested language
ExpectedDirective(language) ==
    IF language.t # "str" \/ Strip(language.v) = <<>> THEN NameDirective(s_english)
    ELSE IF Lower(Strip(language.v)) \in script_instructions
         THEN ScriptDirective(Lower(Strip(language.v)))
         ELSE NameDirective(Lower(Strip(language.v)))

\* C17: in each of the three entry modes the language directive of the
\* built prompt is the native-script directive when the requested language,
\* trimmed and lower-cased, is in the script table, the trimmed lower-cased
\* name when it is not, and english when the request supplies no language
\* or an empty one.
LanguageDirectiveFollowsRequest ==
    fstage \in {"prompted", "configured"} =>
        prompt.language = ExpectedDirective(RequestedLanguage)

IsBlank(item) == Strip(item) = <<>>
NonBlankTrimmed(items) == [i \in 1..Len(SelectSeq(items, LAMBDA x : ~IsBlank(x))) |->
                              Strip(SelectSeq(items, LAMBDA x : ~IsBlank(x))[i])]

\* C18: every text request that reaches the generation pipeline carries a
\* non-empty ingredient list, the trimmed non-empty submitted entries in
\* their order; a submitted list of only empty or whitespace entries is
\* rejected at request validation.
TextIngredientsNonEmpty ==
    fmode = "text" /\ fstage \in {"validated", "prompted", "configured"} =>
        /\ payload.v[k_ingredients] # <<>>
        /\ payload.v[k_ingredients] = NonBlankTrimmed(submitted[k_ingredients].v)

\* a row of that id is in the table and belongs to somebody else
OwnedByAnother(rows, recipe_id, user_id) ==
    \E r \in rows : r.id = recipe_id /\ r.user_id # user_id

\* C19: whatever saves, lists, gets and deletes several users have made,
\* list and get answer an owner only with recipes that owner saved, delete
\* removes a recipe only when it belongs to the owner asking, and on a
\* recipe of another owner get answers not-found and delete answers
\* not-found and leaves the table as it was.
StoreIsScopedByOwner ==
    [][/\ reply'.op \in {"list", "get"} =>
            \A row \in reply'.rows : saved_by[row.id] = reply'.user_id
       /\ reply'.op = "get" /\ OwnedByAnother(saved_recipes, reply'.recipe_id, reply'.user_id) =>
            reply'.status = 404 /\ reply'.rows = {}
       /\ reply'.op = "delete" =>
            \A r \in saved_recipes \ saved_recipes' :
                r.id = reply'.recipe_id /\ saved_by[r.id] = reply'.user_id
       /\ reply'.op = "delete" /\ OwnedByAnother(saved_recipes, reply'.recipe_id, reply'.user_id) =>
            reply'.status = 404 /\ saved_recipes' = saved_recipes
      ]_storeVars
StoreIsScopedByOwnerWitness ==
    /\ reply.op = "delete"
    /\ reply.status = 404
    /\ OwnedByAnother(saved_recipes, reply.recipe_id, reply.user_id)
    /\ \E r \in saved_recipes : r.user_id = reply.user_id

IsSuffix(a, b) == Len(a) <= Len(b) /\ a = SubSeq(b, Len(b) - Len(a) + 1, Len(b))
\* the text is prose followed by the JSON object nbody, which ends it
ProseThenObject ==
    /\ ntext # <<>>
    /\ ~IsFenced(ntext)
    /\ JsonLoads(nbody).ok
    /\ JsonLoads(nbody).v.t = "dict"
    /\ IsSuffix(nbody, StripTokens(ntext))
    /\ StripTokens(ntext) # nbody

\* C21: when the model text is prose followed by a JSON object that ends
\* the string, _extract_and_normalize_json parses exactly that trailing
\* object, whatever the prose, braces in the prose included.
TrailingObjectParsed ==
    nstage # "text" /\ ProseThenObject => ndata = JsonLoads(nbody).v

FirstNonEmpty(d, keys) ==
    LET hits == {i \in 1..Len(keys) : keys[i] \in DOMAIN d /\ Truthy(d[keys[i]])}
    IN IF hits = {} THEN JNull ELSE d[keys[Min(hits)]]
\* first non-empty of title, name, recipe_name, else Recipe
PrimaryTitle(d) ==
    IF FirstNonEmpty(d, <<k_title, k_name, k_recipe_name>>) = JNull THEN JStr(DefaultTitle)
    ELSE FirstNonEmpty(d, <<k_title, k_name, k_recipe_name>>)
\* the trimmed value of the first alternate-title key that holds one, <<>>
\* when no key does
AlternateTitle(d) ==
    IF FirstNonEmpty(d, alt_keys) = JNull THEN <<>>
    ELSE Strip(PyStr(FirstNonEmpty(d, alt_keys)))
\* the trimmed cuisine value, <<>> when there is none
CuisineName(d) ==
    IF FirstNonEmpty(d, <<k_cuisine>>) = JNull THEN <<>>
    ELSE Strip(PyStr(FirstNonEmpty(d, <<k_cuisine>>)))
AltSuffix(d) ==
    IF AlternateTitle(d) # <<>> /\ ~Contains(PyStr(PrimaryTitle(d)), AlternateTitle(d))
    THEN <<" ", "(">> \o AlternateTitle(d) \o <<")">> ELSE <<>>
CuisineSuffix(d) ==
    IF CuisineName(d) # <<>> THEN <<" ", "(">> \o Capitalize(CuisineName(d)) \o <<")">> ELSE <<>>
ExampleTitleDict ==
    JDict((k_title :> JStr(s_Dal)) @@ (k_title_en :> JStr(s_LentilStew))
              @@ (k_cuisine :> JStr(s_punjabi)))
\* "Dal (Lentil Stew) (Punjabi)"
ExampleTitle ==
    <<"D","a","l"," ","(","L","e","n","t","i","l"," ","S","t","e","w",")"," ",
      "(","P","u","n","j","a","b","i",")">>

\* C22: the title _coerce_recipe_dict returns is the primary title, then
\* the alternate title in parentheses exactly when there is one and it is
\* not a substring of the primary title, then the capitalized cuisine in
\* parentheses exactly when there is one; Dal, Lentil Stew and punjabi give
\* Dal (Lentil Stew) (Punjabi).
TitleIsComposed ==
    CoerceReturned =>
        /\ PyStr(nrecipe.v[k_title]) =
              PyStr(PrimaryTitle(ndata.v)) \o AltSuffix(ndata.v) \o CuisineSuffix(ndata.v)
        /\ ndata = ExampleTitleDict => nrecipe.v[k_title] = JStr(ExampleTitle)
TitleIsComposedWitness ==
    /\ CoerceReturned
    /\ ndata = ExampleTitleDict
    /\ nrecipe.v[k_title] = JStr(ExampleTitle)

\* the source value of the time: total_time_minutes, otherwise the alias
\* time_minutes, otherwise nothing
SourceTime(d) ==
    IF k_total_time_minutes \in DOMAIN d THEN d[k_total_time_minutes]
    ELSE IF k_time_minutes \in DOMAIN d THEN d[k_time_minutes]
    ELSE Absent
CoercesToInt(v) == v.t \in {"int", "bool", "str"} /\ PyInt(v).ok

\* C23: servings is the integer coercion of the source value and 2 when the
\* coercion fails; total_time_minutes comes from total_time_minutes and
\* otherwise from the alias time_minutes, is absent exactly when the
\* coercion fails or gives 0, and is the coerced integer otherwise.
ServingsAndTimeCoerced ==
    CoerceReturned =>
        /\ nrecipe.v[k_servings] =
              IF k_servings \in DOMAIN ndata.v /\ CoercesToInt(ndata.v[k_servings])
              THEN JInt(PyInt(ndata.v[k_servings]).v) ELSE JInt(2)
        /\ nrecipe.v[k_total_time_minutes] = JNull <=>
              \/ ~CoercesToInt(SourceTime(ndata.v))
              \/ PyInt(SourceTime(ndata.v)).v = 0
        /\ nrecipe.v[k_total_time_minutes] # JNull =>
              nrecipe.v[k_total_time_minutes] = JInt(PyInt(SourceTime(ndata.v)).v)
ServingsAndTimeCoercedWitness ==
    /\ CoerceReturned
    /\ k_total_time_minutes \notin DOMAIN ndata.v
    /\ k_time_minutes \in DOMAIN ndata.v
    /\ ndata.v[k_time_minutes].t = "str"
    /\ nrecipe.v[k_total_time_minutes] = JInt(20)
    /\ nrecipe.v[k_servings] = JInt(2)

\* the request sets its variation flag
RequestedVariation ==
    IF fmode = "image" THEN Get(submitted.data, k_variation) = JBool(TRUE)
    ELSE Get(submitted, k_variation) = JBool(TRUE)
PoolOf(m) == {VariationPool(m)[i] : i \in 1..Len(VariationPool(m))}

\* C24: in the three entry modes, a request with the variation flag set has
\* the model configured with temperature 0.9 and a prompt with exactly one
\* directive of the variation pool of its mode; a request without it has
\* temperature 0.7 and a prompt with no directive of the pool.
VariationSetsTemperatureAndDirective ==
    fstage = "configured" =>
        IF RequestedVariation
        THEN /\ generation_config.temperature = "0.9"
             /\ Len(prompt.variation) = 1
             /\ prompt.variation[1] \in PoolOf(fmode)
        ELSE /\ generation_config.temperature = "0.7"
             /\ prompt.variation = <<>>
VariationSetsTemperatureAndDirectiveWitness ==
    /\ fstage = "configured"
    /\ fmode = "image"
    /\ RequestedVariation
    /\ generation_config.temperature = "0.9"
    /\ prompt.variation = <<VariationsLong[4]>>

\* the token was drawn by a login, no logout was called with it, and its
\* lifetime has not run out
TokenIsLive(t) ==
    /\ t \in 1..Len(logged_in_as)
    /\ t \notin logged_out
    /\ now < issued_at[t] + SessionLifetime
\* a step that is a request to a protected endpoint
IsProtectedRequest ==
    /\ auth_reply'.op \in ProtectedEndpoints
    /\ UNCHANGED <<users, sessions, tokens_issued, now, logged_in_as, issued_at, logged_out>>

\* C25: whatever signups, logins, logouts and requests came before, a
\* request to a generation or saved-recipe endpoint with no token, a token
\* never issued or a token logged out is answered 401 and its handler does
\* not run; a token issued by a login authenticates exactly the user who
\* logged in, until it is logged out or expires.
SessionGuardsEndpoints ==
    [][IsProtectedRequest =>
          /\ ~TokenIsLive(auth_reply'.token) =>
                auth_reply'.status = 401 /\ ~auth_reply'.handled
          /\ TokenIsLive(auth_reply'.token) =>
                /\ auth_reply'.status = 200
                /\ auth_reply'.handled
                /\ auth_reply'.current_user = logged_in_as[auth_reply'.token]
      ]_authVars
SessionGuardsEndpointsWitness ==
    /\ auth_reply.op = "save_recipe"
    /\ auth_reply.status = 401
    /\ auth_reply.token \in logged_out
    /\ auth_reply.token \in 1..Len(logged_in_as)
    /\ now < issued_at[auth_reply.token] + SessionLifetime
    /\ Cardinality(sessions) > 0

=============================================================================
